---------------------------- MODULE Spec2Model ----------------------------
(***************************************************************************)
(* The search client of cake_vectory (utils/api/search.py), the object     *)
(* accessor it delegates to (utils/api/objects.py), the schema client      *)
(* (utils/api/schema.py), the response handler of the transport            *)
(* (utils/api/client.py) and the hybrid search command                     *)
(* (commands/search.py), as a state machine: one action per operation,     *)
(* each action the whole call.  The server is the environment: every       *)
(* answer it gives to a call is an input of that call.                     *)
(*                                                                         *)
(* Python values: a dict is a record (a missing key is a missing field),   *)
(* a list is a sequence, a str is a sequence of one-character strings,     *)
(* None is the record NoneV and the empty dict the record EmptyDict.       *)
(***************************************************************************)
EXTENDS Integers, Sequences, FiniteSets, TLC

VARIABLES
    patched,    \* ObjectsClient has been given an execute_graphql; it defines none
    op,         \* the operation of the last call
    args,       \* its arguments
    env,        \* the answers the server (or the assigned executor) had for it
    result,     \* how the call ended: returned a value, or raised
    built,      \* the GraphQL request body the call constructed, or NoneV
    sent,       \* the HTTP requests the call sent, in order
    consulted   \* whether the call asked has_vectorizer

vars == <<patched, op, args, env, result, built, sent, consulted>>

----------------------------------------------------------------------------
(* Bounds of the model *)

\* longest object listing the server answers with
MaxListing == 3
\* largest limit a caller asks for
MaxLimit == 2

----------------------------------------------------------------------------
(* Python values *)

NoneV == [py |-> "None"]
EmptyDict == [py |-> "dict"]

IsNone(v) == v = NoneV

\* dict.get(k, default)
Get(d, k, default) == IF k \in DOMAIN d THEN d[k] ELSE default

\* {key: value for key, value in d.items() if key != k}
Without(d, k) ==
    IF DOMAIN d \ {k} = {} THEN EmptyDict
    ELSE [x \in DOMAIN d \ {k} |-> d[x]]

\* d[k] = v on a dict
With(d, k, v) ==
    [x \in (DOMAIN d \ {"py"}) \cup {k} |-> IF x = k THEN v ELSE d[x]]

Returned(v) == [kind |-> "returned", value |-> v]
Raised(e) == [kind |-> "raised", exc |-> e]

\* a float; scores are kept in hundredths
Float(n) == [t |-> "float", v |-> n]
\* a str holding the decimal numeral of n hundredths
NumStr(n) == [t |-> "str", v |-> n]

\* str.lower() on the alphabet of the model
LowerChar(c) ==
    CASE c = "C" -> "c"
      [] c = "A" -> "a"
      [] c = "T" -> "t"
      [] c = "S" -> "s"
      [] OTHER -> c

lower(s) == [i \in 1..Len(s) |-> LowerChar(s[i])]

\* Python's  a in b  on two str
Contains(a, b) ==
    \E i \in 0..(Len(b) - Len(a)) :
        \A j \in 1..Len(a) : b[i + j] = a[j]

\* seq[:n] for n >= 0
Take(seq, n) == SubSeq(seq, 1, IF n < Len(seq) THEN n ELSE Len(seq))


\* a str where None may stand instead
S(x) == [str |-> x]
\* a list where None may stand instead
L(seq) == [list |-> seq]
\* json.dumps(v): the JSON text of v
Json(v) == [json |-> v]
\* f'"{v}"': v between double quotes, nothing escaped
Quoted(v) == [quoted |-> v]

\* bool(v) of a response: None and the empty dict are false
Truthy(v) == v \notin {NoneV, EmptyDict}

\* an int where a value of another type may stand instead
PyInt(n) == [int |-> n]
IsInt(v) == "int" \in DOMAIN v
\* isinstance(v, list), isinstance(v, str), isinstance(v, dict)
IsList(v) == "list" \in DOMAIN v
IsStr(v) == "str" \in DOMAIN v
IsDict(v) == v = EmptyDict \/ DOMAIN v \cap {"py", "int", "list", "str"} = {}

----------------------------------------------------------------------------
(* The inputs: what callers pass and what the server answers *)

ClassName == "Docs"

cats == <<"c", "a", "t", "s">>
dogs == <<"d", "o", "g", "s">>
Cats_and_dogs == <<"C", "a", "t", "s", " ", "a", "n", "d", " ">> \o dogs

Texts == {cats, dogs, Cats_and_dogs}
Queries == {<<>>, cats, <<"C", "A", "T">>}
Limits == 1..MaxLimit
Tenants == {NoneV, S("tenantA")}
Filters == {NoneV, [path |-> <<"text">>, operator |-> "Like", valueText |-> <<"c", "*">>]}
Vectors == {NoneV, L(<<10, 20>>)}
FusionTypes == {"rankedFusion", "relativeScoreFusion", "bogusFusion"}
PropertyLists == {NoneV, L(<<>>), L(<<"text">>)}
FieldLists == {NoneV, L(<<"title">>)}
Alpha == Float(50)

\* the orders in which list(set) may enumerate the names outside the priority list
Orders == {<<"title", "author">>, <<"author", "title">>}

Prop(n) == [name |-> n, dataType |-> <<"text">>]
Props(names) == [i \in 1..Len(names) |-> Prop(names[i])]

\* the schema of a class as the server describes it
ClassDicts ==
    { [class |-> ClassName, properties |-> Props(<<"title", "text", "full_path">>)],
      [class |-> ClassName, vectorizer |-> S("none"), properties |-> <<>>],
      [class |-> ClassName, vectorizer |-> S("none"), properties |-> Props(<<"title", "author">>)],
      [class |-> ClassName, vectorizer |-> NoneV],
      [class |-> ClassName, vectorizer |-> S("text2vec"),
       properties |-> Props(<<"ts", "title", "chunk_index", "text">>)],
      [class |-> ClassName, vectorizer |-> S("text2vec"), properties |-> Props(<<"title", "author">>)],
      [class |-> ClassName, vectorizer |-> S("text2vec"), properties |-> <<>>],
      [class |-> ClassName, vectorizer |-> S("text2vec")] }

OtherClass == [class |-> "Other", vectorizer |-> S("text2vec"), properties |-> Props(<<"body">>)]

SchemaData(classes) == [data |-> [Schema |-> [objects |-> classes]]]

GraphQLErrors ==
    { <<[message |-> "m1", locations |-> <<[line |-> 17, column |-> 19]>>]>>,
      <<[message |-> "m1", locations |-> <<[line |-> 17, column |-> 19], [line |-> 18]>>],
        [message |-> "m2"]>>,
      <<[locations |-> <<>>]>> }

\* what the executor answers to the Schema query
SchemaResponses ==
    {NoneV, [errors |-> <<[message |-> "m1"]>>], SchemaData(<<>>), SchemaData(<<OtherClass>>)}
    \cup {SchemaData(<<c>>) : c \in ClassDicts}
    \cup {SchemaData(<<OtherClass, c>>) : c \in {d \in ClassDicts : "properties" \notin DOMAIN d}}

\* the objects of a Get answer
Raw1 == [text |-> cats, full_path |-> <<"p">>, _additional |-> [id |-> "id1", score |-> NumStr(97)]]
Raw2 == [text |-> dogs, _additional |-> [id |-> "id2"]]
Raw3 == [title |-> <<"t">>]
Raw4 == [text |-> dogs, _additional |-> [id |-> "id4", score |-> NoneV]]
Raw5 == [text |-> dogs, _additional |-> NoneV]

GetData(objs) == [data |-> [Get |-> [Docs |-> objs]]]

\* what the executor answers to a Get query
Answers ==
    {NoneV, EmptyDict, GetData(<<>>), GetData(<<Raw1>>), GetData(<<Raw2, Raw1>>),
     GetData(<<Raw3, Raw1>>), GetData(<<Raw2, Raw4>>), GetData(<<Raw5>>),
     [data |-> [Get |-> [Other |-> <<Raw1>>]]],
     [data |-> [Aggregate |-> EmptyDict]]}
    \cup {[errors |-> e] : e \in GraphQLErrors}
    \cup {[errors |-> e, data |-> GetData(<<Raw1>>).data] : e \in GraphQLErrors}

RECURSIVE SeqsUpTo(_, _)
SeqsUpTo(X, n) ==
    IF n = 0 THEN {<<>>}
    ELSE LET shorter == SeqsUpTo(X, n - 1)
         IN  shorter \cup {Append(s, x) : s \in {t \in shorter : Len(t) = n - 1}, x \in X}

\* an object of a listing, in the shape of a Get answer and in the shape of objects
IdOf(i) == <<"id1", "id2", "id3", "id4", "id5">>[i]
GetObject(i, t) == [text |-> t, _additional |-> [id |-> IdOf(i)]]
RestObject(i, t) == [class |-> ClassName, id |-> IdOf(i), properties |-> [text |-> t]]

GetListing(ts) == GetData([i \in 1..Len(ts) |-> GetObject(i, ts[i])])
RestListing(ts) == [objects |-> [i \in 1..Len(ts) |-> RestObject(i, ts[i])], totalResults |-> Len(ts)]

\* how GET objects ends: a failed status, or a body
ListingOutcomes ==
    {Raised("APIError"), Returned([error |-> <<[message |-> "m1"]>>])}
    \cup {Returned(GetListing(ts)) : ts \in SeqsUpTo(Texts, MaxListing)}
    \cup {Returned(RestListing(ts)) : ts \in SeqsUpTo({cats}, MaxListing)}

\* an answer the call never asked for
NotAsked == [py |-> "NotAsked"]

----------------------------------------------------------------------------
(* utils/api/objects.py and the executor the search client calls on it *)

\* what one operation did: how it ended, the Get body it constructed, the HTTP
\* requests it sent, the answers it asked for, whether it asked has_vectorizer
Did(res, body, reqs, asks, hv) ==
    [result |-> res, built |-> body, sent |-> reqs, asked |-> asks, consulted |-> hv]

\* ObjectsClient defines no execute_graphql: the attribute lookup
\* objects_client.execute_graphql raises unless a caller has assigned one on the
\* instance; an assigned executor hands back its answer.
execute_graphql(p, response) ==
    IF p THEN Returned(response) ELSE Raised("AttributeError")

\* the page search_objects and filter_objects ask for when they filter client-side
PageLimit == 1000

\* ObjectsClient.get_objects: the params of GET objects
get_objects_request(class_name, limit, tenant) ==
    LET params == [class |-> class_name, limit |-> limit, offset |-> 0]
    IN  [method |-> "GET", endpoint |-> "objects",
         params |-> IF Truthy(tenant) /\ tenant # S("") THEN With(params, "tenant", tenant)
                    ELSE params]

\* what POST graphql hands back to get_collection_count: the transport's
\* failure, or the decoded body
AggregateOf(class_data) == [data |-> [Aggregate |-> [Docs |-> class_data]]]
CountOf(count) == AggregateOf(L(<<[meta |-> [count |-> count]]>>))

CountResponses ==
    {NoneV, EmptyDict, L(<<>>), [errors |-> L(<<[message |-> S("m1")]>>)],
     [data |-> NoneV], [data |-> [Aggregate |-> EmptyDict]],
     AggregateOf(L(<<>>)), AggregateOf([meta |-> [count |-> PyInt(42)]]),
     AggregateOf(L(<<PyInt(1)>>)), AggregateOf(L(<<EmptyDict>>)),
     AggregateOf(L(<<[meta |-> NoneV]>>)),
     CountOf(PyInt(0)), CountOf(PyInt(42)), CountOf(NoneV), CountOf(S("5"))}

CountOutcomes == {Raised("APIError")} \cup {Returned(r) : r \in CountResponses}

\* the body of the Aggregate query: the tenant is an argument of the class
\* inside the query text
aggregate_query(class_name, tenant) ==
    IF Truthy(tenant) /\ tenant # S("")
    THEN [query |-> [aggregate |-> class_name, tenant_argument |-> Quoted(tenant)]]
    ELSE [query |-> [aggregate |-> class_name]]

\* the count get_collection_count reads out of the response; every .get on a
\* value that is no dict raises AttributeError, which the method answers with 0
extract_count(response, class_name) ==
    IF ~IsDict(response) THEN PyInt(0)
    ELSE LET data == Get(response, "data", EmptyDict)
         IN  IF ~IsDict(data) THEN PyInt(0)
             ELSE LET aggregate == Get(data, "Aggregate", EmptyDict)
                  IN  IF ~IsDict(aggregate) THEN PyInt(0)
                      ELSE LET class_data == Get(aggregate, class_name, L(<<>>))
                           IN  IF IsList(class_data) /\ Len(class_data.list) > 0
                               THEN LET first == class_data.list[1]
                                    IN  IF ~IsDict(first) THEN PyInt(0)
                                        ELSE LET meta == Get(first, "meta", EmptyDict)
                                             IN  IF ~IsDict(meta) THEN PyInt(0)
                                                 ELSE Get(meta, "count", PyInt(0))
                               ELSE PyInt(0)

PostGraphql == [method |-> "POST", endpoint |-> "graphql"]

\* ObjectsClient.get_collection_count
get_collection_count(class_name, tenant, posted) ==
    LET body == aggregate_query(class_name, tenant)
    IN  IF posted.kind = "raised" THEN Did(posted, body, <<PostGraphql>>, {"count"}, FALSE)
        ELSE Did(Returned(extract_count(posted.value, class_name)), body,
                 <<PostGraphql>>, {"count"}, FALSE)

----------------------------------------------------------------------------
(* utils/api/search.py *)

\* SearchClient.get_schemas
get_schemas(p, schema_response) ==
    LET r == execute_graphql(p, schema_response)
    IN  IF r.kind = "raised" THEN r
        ELSE IF IsNone(r.value) THEN Raised("AttributeError")
        ELSE Returned(Get(Get(Get(r.value, "data", EmptyDict), "Schema", EmptyDict),
                          "objects", <<>>))

\* the first schema of the listing whose class is class_name, else NoneV
FirstOfClass(schemas, class_name) ==
    LET hits == {i \in 1..Len(schemas) : Get(schemas[i], "class", "") = class_name}
    IN  IF hits = {} THEN NoneV
        ELSE schemas[CHOOSE i \in hits : \A j \in hits : i <= j]

\* SearchClient.has_vectorizer
has_vectorizer(p, schema_response, class_name) ==
    LET r == get_schemas(p, schema_response)
    IN  IF r.kind = "raised" THEN r
        ELSE LET schema == FirstOfClass(r.value, class_name)
             IN  IF IsNone(schema) THEN Returned(FALSE)
                 ELSE Returned(Get(schema, "vectorizer", S("none")) # S("none"))

\* SearchClient._get_available_fields
get_available_fields(p, schema_response, class_name) ==
    LET r == get_schemas(p, schema_response)
    IN  IF r.kind = "raised" THEN r
        ELSE LET schema == FirstOfClass(r.value, class_name)
                 properties == IF IsNone(schema) THEN <<>>
                               ELSE Get(schema, "properties", <<>>)
             IN  Returned({Get(properties[i], "name", "") : i \in 1..Len(properties)})

PriorityFields == <<"text", "full_path", "chunk_index", "total_chunks", "ts">>

\* a field selection that asks for text alone whenever the schema holds none of
\* the priority fields
fields_to_query_minimal(fields, p, schema_response, class_name, order) ==
    IF IsNone(fields)
    THEN LET r == get_available_fields(p, schema_response, class_name)
         IN  IF r.kind = "raised" THEN PriorityFields
             ELSE LET found == SelectSeq(PriorityFields, LAMBDA f : f \in r.value)
                  IN  IF found # <<>> THEN found ELSE <<"text">>
    ELSE fields.list

\* the fields a query asks for (the block repeated in hybrid_search, vector_search
\* and filter_objects); order is the order in which list(set) enumerates
fields_to_query(fields, p, schema_response, class_name, order) ==
    IF IsNone(fields)
    THEN LET r == get_available_fields(p, schema_response, class_name)
         IN  IF r.kind = "raised" THEN PriorityFields
             ELSE LET available == r.value
                      found == SelectSeq(PriorityFields, LAMBDA f : f \in available)
                      all == SelectSeq(order, LAMBDA f : f \in available)
                  IN  IF found # <<>> THEN found
                      ELSE IF available # {} THEN all
                      ELSE <<"text">>
    ELSE fields.list

\* the answers the field selection asks for
fields_asked(fields, p) == IF IsNone(fields) /\ p THEN {"schema"} ELSE {}

\* a dict with the one key k
Single(k, v) == [x \in {k} |-> v]

\* the client-side matching loop of search_objects
RECURSIVE match_loop(_, _, _, _, _)
match_loop(objs, i, query_text, limit, matched) ==
    IF i > Len(objs) THEN matched
    ELSE LET obj == objs[i]
             properties == Get(obj, "text", <<>>)
             next == IF properties # <<>> /\ Contains(lower(query_text), lower(properties))
                     THEN Append(matched, obj)
                     ELSE matched
         IN  IF Len(next) >= limit THEN next
             ELSE match_loop(objs, i + 1, query_text, limit, next)

\* SearchClient.search_objects
search_objects(p, a, e) ==
    LET hv == has_vectorizer(p, e.schema, a.class_name)
        schema_asked == IF p THEN {"schema"} ELSE {}
    IN  IF hv.kind = "raised" THEN Did(hv, NoneV, <<>>, schema_asked, TRUE)
        ELSE IF hv.value /\ a.query_text # <<>>
        THEN Did(Returned(NoneV), NoneV, <<>>, schema_asked, TRUE)
        ELSE IF ~hv.value /\ a.query_text # <<>>
        THEN LET req == get_objects_request(a.class_name, PageLimit, a.tenant)
                 all_objects == e.listing
             IN  IF all_objects.kind = "raised"
                 THEN Did(all_objects, NoneV, <<req>>, schema_asked \cup {"listing"}, TRUE)
                 ELSE LET objs == Get(Get(Get(all_objects.value, "data", EmptyDict),
                                          "Get", EmptyDict), a.class_name, <<>>)
                          matched == match_loop(objs, 1, a.query_text, a.limit, <<>>)
                          kept == Take(matched, a.limit)
                          scored == [i \in 1..Len(kept) |->
                                        With(kept[i], "_additional", [score |-> Float(100)])]
                      IN  Did(Returned([data |-> [Get |-> Single(a.class_name, scored)]]),
                              NoneV, <<req>>, schema_asked \cup {"listing"}, TRUE)
        ELSE LET req == get_objects_request(a.class_name, a.limit, a.tenant)
                 response == e.listing
             IN  IF response.kind = "raised"
                 THEN Did(response, NoneV, <<req>>, schema_asked \cup {"listing"}, TRUE)
                 ELSE IF "error" \in DOMAIN response.value
                 THEN Did(Returned([error |-> response.value.error, objects |-> <<>>]),
                          NoneV, <<req>>, schema_asked \cup {"listing"}, TRUE)
                 ELSE Did(response, NoneV, <<req>>, schema_asked \cup {"listing"}, TRUE)

\* f"{n}" of a line or a column, and the '?' that stands for a missing one
Fmt(n) == [digits |-> n]
QuestionMark == [text |-> "?"]

\* one line of the error string
error_message(error) ==
    LET message == Get(error, "message", "Unknown error")
        locations == Get(error, "locations", <<>>)
        location_str == [i \in 1..Len(locations) |->
            [line |-> IF "line" \in DOMAIN locations[i]
                      THEN Fmt(locations[i].line) ELSE QuestionMark,
             column |-> IF "column" \in DOMAIN locations[i]
                      THEN Fmt(locations[i].column) ELSE QuestionMark]]
    IN  IF locations # <<>>
        THEN [text |-> "GraphQL error at", at |-> location_str, message |-> message]
        ELSE [text |-> "GraphQL error", message |-> message]

\* float(x) of a score
pyfloat(x) == IF x.t = "float" THEN x ELSE Float(x.v)

\* one raw object of a Get answer, transformed
transformed_obj(obj) ==
    LET add == Get(obj, "_additional", EmptyDict)
    IN  [id |-> Get(add, "id", "Unknown"),
         properties |-> Without(obj, "_additional"),
         additional |-> IF "_additional" \in DOMAIN obj /\ "score" \in DOMAIN obj["_additional"]
                        THEN [score |-> pyfloat(obj["_additional"].score)]
                        ELSE EmptyDict]

\* a response handling that never looks for errors
format_response_unchecked(response, class_name) ==
    IF Truthy(response) /\ "data" \in DOMAIN response /\ "Get" \in DOMAIN response.data
    THEN LET get_data == response.data["Get"]
         IN  IF class_name \in DOMAIN get_data /\ get_data[class_name] # <<>>
             THEN [objects |-> [i \in 1..Len(get_data[class_name]) |->
                                   transformed_obj(get_data[class_name][i])]]
             ELSE [objects |-> <<>>]
    ELSE [objects |-> <<>>, raw_response |-> response]

\* the response handling shared by hybrid_search and filter_objects: errors
\* first, then data, then the raw response; the error string is its lines
format_response(response, class_name) ==
    IF Truthy(response) /\ "errors" \in DOMAIN response
    THEN [error |-> [i \in 1..Len(response.errors) |-> error_message(response.errors[i])],
          objects |-> <<>>]
    ELSE IF Truthy(response) /\ "data" \in DOMAIN response /\ "Get" \in DOMAIN response.data
    THEN LET get_data == response.data["Get"]
         IN  IF class_name \in DOMAIN get_data /\ get_data[class_name] # <<>>
             THEN [objects |-> [i \in 1..Len(get_data[class_name]) |->
                                   transformed_obj(get_data[class_name][i])]]
             ELSE [objects |-> <<>>]
    ELSE [objects |-> <<>>, raw_response |-> response]

\* what transforming one raw object raises, NoneV when it raises nothing:
\* .get on an _additional that is None, float() of a score that is None
transform_error(obj) ==
    IF "_additional" \notin DOMAIN obj THEN NoneV
    ELSE IF obj["_additional"] = NoneV THEN Raised("AttributeError")
    ELSE IF "score" \in DOMAIN obj["_additional"] /\ obj["_additional"].score = NoneV
    THEN Raised("TypeError")
    ELSE NoneV

\* the raw objects the response handling transforms: those of the class, when
\* the response holds no errors
transformed_raws(response, class_name) ==
    IF Truthy(response) /\ "errors" \in DOMAIN response THEN <<>>
    ELSE IF Truthy(response) /\ "data" \in DOMAIN response /\ "Get" \in DOMAIN response.data
    THEN IF class_name \in DOMAIN response.data["Get"]
         THEN response.data["Get"][class_name] ELSE <<>>
    ELSE <<>>

\* how the response handling ends: with what the first raw object that cannot
\* be transformed raises, else with the formatted response
formatted(response, class_name, raws) ==
    IF \E i \in 1..Len(raws) : transform_error(raws[i]) # NoneV
    THEN transform_error(raws[CHOOSE i \in 1..Len(raws) :
                                  /\ transform_error(raws[i]) # NoneV
                                  /\ \A j \in 1..(i - 1) : transform_error(raws[j]) = NoneV])
    ELSE Returned(format_response(response, class_name))

\* the request body of a Get query: the query text by its parts, and the tenant
graphql_query(class_name, limit, where, search_clause, fields, tenant) ==
    LET head == [class |-> class_name, limit |-> limit, fields |-> fields,
                 additional |-> <<"id", "score">>]
        searched == IF IsNone(search_clause) THEN head
                    ELSE With(head, "search", search_clause)
        query == IF IsNone(where) THEN searched ELSE With(searched, "where", where)
    IN  IF Truthy(tenant) /\ tenant # S("")
        THEN [query |-> query, tenant |-> tenant]
        ELSE [query |-> query]

\* the where clause of hybrid_search and vector_search: only for a truthy filter
optional_where(filter_obj) ==
    IF Truthy(filter_obj) THEN Json(filter_obj) ELSE NoneV

\* a hybrid block in which a properties list takes the place of the vector
hybrid_params_properties_only(a) ==
    LET base == [query |-> Quoted(a.query), alpha |-> a.alpha, fusionType |-> a.fusion_type]
    IN  IF ~IsNone(a.properties) /\ Len(a.properties.list) > 0
        THEN With(base, "properties", Json(a.properties.list))
        ELSE IF ~IsNone(a.vector) THEN With(base, "vector", Json(a.vector.list))
        ELSE base

\* the hybrid block of hybrid_search
hybrid_params(a) ==
    LET base == [query |-> Quoted(a.query), alpha |-> a.alpha, fusionType |-> a.fusion_type]
        vectored == IF ~IsNone(a.vector) THEN With(base, "vector", Json(a.vector.list))
                    ELSE base
    IN  IF ~IsNone(a.properties) /\ Len(a.properties.list) > 0
        THEN With(vectored, "properties", Json(a.properties.list))
        ELSE vectored

\* a fallback that leaves the limit at its default of 10
fallback_args_default_limit(a) ==
    [class_name |-> a.class_name, query_text |-> a.query, limit |-> 10,
     tenant |-> a.tenant, filter_obj |-> a.filter_obj]

\* the arguments hybrid_search passes on to search_objects
fallback_args(a) ==
    [class_name |-> a.class_name, query_text |-> a.query, limit |-> a.limit,
     tenant |-> a.tenant, filter_obj |-> a.filter_obj]

\* the rest of hybrid_search once the text fallback is ruled out
hybrid_query(p, a, e, order, schema_asked, hv_asked) ==
    LET fields == fields_to_query(a.fields, p, e.schema, a.class_name, order)
        body == graphql_query(a.class_name, a.limit, optional_where(a.filter_obj),
                              [hybrid |-> hybrid_params(a)], fields, a.tenant)
        asks == schema_asked \cup fields_asked(a.fields, p)
        r == execute_graphql(p, e.answer)
    IN  IF r.kind = "raised" THEN Did(r, body, <<>>, asks, hv_asked)
        ELSE Did(formatted(r.value, a.class_name,
                               transformed_raws(r.value, a.class_name)), body, <<>>,
                 asks \cup {"answer"}, hv_asked)

\* a hybrid_search that asks has_vectorizer whether or not a vector is given
hybrid_search_vector_ignored(p, a, e, order) ==
    LET hv == has_vectorizer(p, e.schema, a.class_name)
        schema_asked == IF p THEN {"schema"} ELSE {}
    IN  IF hv.kind = "raised" THEN Did(hv, NoneV, <<>>, schema_asked, TRUE)
        ELSE IF ~hv.value THEN search_objects(p, fallback_args(a), e)
        ELSE hybrid_query(p, a, e, order, schema_asked, TRUE)

\* SearchClient.hybrid_search
hybrid_search(p, a, e, order) ==
    IF ~IsNone(a.vector) THEN hybrid_query(p, a, e, order, {}, FALSE)
    ELSE LET hv == has_vectorizer(p, e.schema, a.class_name)
             schema_asked == IF p THEN {"schema"} ELSE {}
         IN  IF hv.kind = "raised" THEN Did(hv, NoneV, <<>>, schema_asked, TRUE)
             ELSE IF ~hv.value THEN search_objects(p, fallback_args(a), e)
             ELSE hybrid_query(p, a, e, order, schema_asked, TRUE)

\* SearchClient.vector_search
vector_search(p, a, e, order) ==
    LET fields == fields_to_query(a.fields, p, e.schema, a.class_name, order)
        body == graphql_query(a.class_name, a.limit, optional_where(a.filter_obj),
                              [nearVector |-> [vector |-> Json(a.vector.list)]],
                              fields, a.tenant)
        asks == fields_asked(a.fields, p)
        r == execute_graphql(p, e.answer)
    IN  IF r.kind = "raised" THEN Did(r, body, <<>>, asks, FALSE)
        ELSE Did(r, body, <<>>, asks \cup {"answer"}, FALSE)

\* SearchClient.filter_objects
filter_objects(p, a, e, order) ==
    LET hv == has_vectorizer(p, e.schema, a.class_name)
        schema_asked == IF p THEN {"schema"} ELSE {}
    IN  IF hv.kind = "raised" THEN Did(hv, NoneV, <<>>, schema_asked, TRUE)
        ELSE IF ~hv.value
        THEN Did(e.listing, NoneV,
                 <<get_objects_request(a.class_name, PageLimit, a.tenant)>>,
                 schema_asked \cup {"listing"}, TRUE)
        ELSE LET fields == fields_to_query(a.fields, p, e.schema, a.class_name, order)
                 body == graphql_query(a.class_name, a.limit, Json(a.filter_obj), NoneV,
                                       fields, a.tenant)
                 r == execute_graphql(p, e.answer)
             IN  IF r.kind = "raised" THEN Did(r, body, <<>>, schema_asked, TRUE)
                 ELSE Did(formatted(r.value, a.class_name,
                               transformed_raws(r.value, a.class_name)), body, <<>>,
                          schema_asked \cup {"answer"}, TRUE)

----------------------------------------------------------------------------
(* utils/api/schema.py *)

\* longest shard list the server answers with
MaxShards == 2

Endpoint(method, path) == [method |-> method, endpoint |-> path]
SchemaEndpoint == Endpoint("GET", <<"schema">>)
ClassEndpoint(class_name) == Endpoint("GET", <<"schema", class_name>>)
ShardsEndpoint(class_name) == Endpoint("GET", <<"schema", class_name, "shards">>)
MetricsEndpoint(class_name, shard_name) ==
    Endpoint("GET", <<"schema", class_name, "shards", shard_name, "metrics">>)

\* len(d) of a dict
DictLen(d) == IF d = EmptyDict THEN 0 ELSE Cardinality(DOMAIN d)
\* k in d for a dict
HasKey(d, k) == d # EmptyDict /\ k \in DOMAIN d
\* {**a, **b}
Merged(a, b) ==
    IF b = EmptyDict THEN a
    ELSE IF a = EmptyDict THEN b
    ELSE [k \in DOMAIN a \cup DOMAIN b |-> IF k \in DOMAIN b THEN b[k] ELSE a[k]]

\* the shard records the server lists
Shard1 == [name |-> "shard1", objectCount |-> S("5")]
Shard1Again == [name |-> "shard1", objectCount |-> PyInt(9), status |-> S("READONLY")]
Shard_1 == [name |-> "shard_1", objectCount |-> PyInt(7)]
Nameless == [objectCount |-> PyInt(3)]
ShardRecords == {Shard1, Shard1Again, Shard_1, Nameless}
ShardNames == {"shard1", "shard_1", "shard9"}

\* what GET schema/{class}/shards hands back
ShardsOutcomes ==
    {Raised("APIError"), Returned(NoneV), Returned(EmptyDict),
     Returned(L(<<PyInt(1), Shard1>>)),
     Returned([shard1 |-> Shard1]), Returned([shard1 |-> Shard1, shard_1 |-> Shard_1])}
    \cup {Returned(L(l)) : l \in SeqsUpTo(ShardRecords, MaxShards)}

\* what POST graphql hands back when a shard operation asks for the count
ShardCountOutcomes ==
    {Raised("APIError"), Returned(CountOf(PyInt(0))), Returned(CountOf(PyInt(42))),
     Returned(CountOf(NoneV))}

\* what GET schema/{class} hands back
DocsClass ==
    [class |-> "Docs", replicationConfig |-> [factor |-> PyInt(3)],
     shardingConfig |-> [desiredCount |-> PyInt(1)]]
MetaOutcomes ==
    {Raised("APIError"), Returned(NoneV), Returned(EmptyDict), Returned(DocsClass),
     Returned([class |-> "Docs"])}

\* what GET schema hands back
ClassesOutcomes ==
    {Raised("APIError"), Returned(NoneV), Returned(EmptyDict),
     Returned([classes |-> L(<<>>)]), Returned([classes |-> L(<<DocsClass>>)]),
     Returned([classes |-> L(<<[class |-> "Other"], [class |-> "Docs"]>>)]),
     Returned([classes |-> L(<<PyInt(1), DocsClass>>)])}

\* what GET schema/{class}/shards/{shard}/metrics hands back
MetricsOutcomes ==
    {Raised("APIError"), Returned(NoneV), Returned(EmptyDict),
     Returned([memoryUsage |-> PyInt(7)]),
     Returned([objectCount |-> PyInt(8), diskUsage |-> PyInt(2)]),
     Returned(L(<<PyInt(1)>>))}

\* SchemaClient.get_schemas: the classes of GET schema
schema_get_schemas(fetched) ==
    IF fetched.kind = "raised" THEN fetched
    ELSE IF ~IsDict(fetched.value) THEN Raised("AttributeError")
    ELSE Returned(Get(fetched.value, "classes", L(<<>>)))

\* next((s for s in schemas if s.get("class") == class_name), None)
RECURSIVE next_of_class(_, _, _)
next_of_class(schemas, i, class_name) ==
    IF i > Len(schemas) THEN Returned(NoneV)
    ELSE IF ~IsDict(schemas[i]) THEN Raised("AttributeError")
    ELSE IF Get(schemas[i], "class", "") = class_name THEN Returned(schemas[i])
    ELSE next_of_class(schemas, i + 1, class_name)

\* replication and sharding, taken out of a class description that has them
with_configs(stats, source) ==
    LET replicated == IF "replicationConfig" \in DOMAIN source
                      THEN With(stats, "replication", source.replicationConfig)
                      ELSE stats
    IN  IF "shardingConfig" \in DOMAIN source
        THEN With(replicated, "sharding", source.shardingConfig)
        ELSE replicated

\* the schema listing as a source of metadata; whatever fails leaves stats as
\* they are
meta_from_schemas(stats, class_name, fetched) ==
    LET schemas == schema_get_schemas(fetched)
    IN  IF schemas.kind = "raised" THEN stats
        ELSE IF ~IsList(schemas.value) THEN stats
        ELSE LET schema == next_of_class(schemas.value.list, 1, class_name)
             IN  IF schema.kind = "raised" \/ ~Truthy(schema.value) THEN stats
                 ELSE with_configs(With(stats, "meta", [schema |-> schema.value]),
                                   schema.value)

\* SchemaClient.get_collection_stats
get_collection_stats(class_name, e) ==
    LET stats == [object_count |-> PyInt(0), meta |-> EmptyDict, shards |-> L(<<>>),
                  replication |-> EmptyDict]
        counted == get_collection_count(class_name, NoneV, e.count)
    IN  IF counted.result.kind = "raised"
        THEN Did(Returned(meta_from_schemas(stats, class_name, e.classes)), NoneV,
                 <<PostGraphql, SchemaEndpoint>>, {}, FALSE)
        ELSE LET with_count == With(stats, "object_count", counted.result.value)
                 \* "replicationConfig" in meta_response raises TypeError on a
                 \* value that is neither dict nor list, after stats["meta"] is set
                 meta_failed == e.meta.kind = "raised"
                                \/ ~(IsDict(e.meta.value) \/ IsList(e.meta.value))
                 with_meta ==
                     IF e.meta.kind = "raised"
                     THEN meta_from_schemas(with_count, class_name, e.classes)
                     ELSE IF IsDict(e.meta.value)
                     THEN with_configs(With(with_count, "meta", e.meta.value),
                                       e.meta.value)
                     ELSE IF IsList(e.meta.value)
                     THEN With(with_count, "meta", e.meta.value)
                     ELSE meta_from_schemas(With(with_count, "meta", e.meta.value),
                                            class_name, e.classes)
                 with_shards == IF e.shards.kind = "raised" THEN with_meta
                                ELSE With(with_meta, "shards", e.shards.value)
             IN  Did(Returned(with_shards), NoneV,
                     <<PostGraphql, ClassEndpoint(class_name)>>
                         \o (IF meta_failed THEN <<SchemaEndpoint>> ELSE <<>>)
                         \o <<ShardsEndpoint(class_name)>>,
                     {}, FALSE)

\* f"shard_{n}"
GeneratedKey(n) == <<"shard_0", "shard_1", "shard_2", "shard_3", "shard_4">>[n + 1]

\* the list of shards as a dict keyed by shard name
RECURSIVE shard_dict_of(_, _, _)
shard_dict_of(response, i, shard_dict) ==
    IF i > Len(response) THEN shard_dict
    ELSE LET shard == response[i]
         IN  IF IsDict(shard) /\ HasKey(shard, "name")
             THEN shard_dict_of(response, i + 1, With(shard_dict, shard.name, shard))
             ELSE IF IsDict(shard)
             THEN shard_dict_of(response, i + 1,
                                With(shard_dict, GeneratedKey(DictLen(shard_dict)), shard))
             ELSE shard_dict_of(response, i + 1, shard_dict)

\* the object count of the only shard, set to the total when there is one
with_total(shard_dict, total_objects) ==
    LET shard_key == CHOOSE k \in DOMAIN shard_dict : TRUE
    IN  IF DictLen(shard_dict) = 1 /\ IsInt(total_objects) /\ total_objects.int > 0
        THEN With(shard_dict, shard_key,
                  With(shard_dict[shard_key], "objectCount", total_objects))
        ELSE shard_dict

\* get_shards on a list of shards, given what get_collection_stats did
shards_of_list(class_name, response, stats) ==
    Did(Returned(with_total(shard_dict_of(response, 1, EmptyDict),
                            stats.result.value.object_count)),
        NoneV, <<ShardsEndpoint(class_name)>> \o stats.sent, {}, FALSE)

\* SchemaClient.get_shards
get_shards(class_name, e) ==
    IF e.shards.kind = "raised"
    THEN Did(Returned(EmptyDict), NoneV, <<ShardsEndpoint(class_name)>>, {}, FALSE)
    ELSE IF IsList(e.shards.value)
    THEN shards_of_list(class_name, e.shards.value.list,
                        get_collection_stats(class_name, e))
    ELSE Did(e.shards, NoneV, <<ShardsEndpoint(class_name)>>, {}, FALSE)

\* get_shard_details, given what get_shards did: the shard when it is listed,
\* else whatever the metrics endpoint adds to an empty record
details_of(listed, class_name, shard_name, metrics) ==
    LET shards == listed.result.value
        basic == Get(shards, shard_name, EmptyDict)
        asked_metrics == listed.sent \o <<MetricsEndpoint(class_name, shard_name)>>
    IN  \* shard_name in shards raises TypeError on a value that is no dict
        IF ~IsDict(shards) THEN Did(Returned(EmptyDict), NoneV, listed.sent, {}, FALSE)
        ELSE IF HasKey(shards, shard_name)
        THEN Did(Returned(shards[shard_name]), NoneV, listed.sent, {}, FALSE)
        \* {**shard_info, **response} raises TypeError on a response that is no
        \* mapping, and the handler returns the basic record
        ELSE IF \/ metrics.kind = "raised"
                \/ ~Truthy(metrics.value)
                \/ metrics.value = L(<<>>)
                \/ ~IsDict(metrics.value)
        THEN Did(Returned(basic), NoneV, asked_metrics, {}, FALSE)
        ELSE Did(Returned(Merged(basic, metrics.value)), NoneV, asked_metrics, {}, FALSE)

\* SchemaClient.get_shard_details
get_shard_details(class_name, shard_name, e) ==
    details_of(get_shards(class_name, e), class_name, shard_name, e.metrics)

----------------------------------------------------------------------------
(* utils/api/client.py *)

\* the status codes of the responses the transport is handed
StatusCodes == {199, 200, 204, 299, 300, 304, 399, 400, 404, 499, 500, 503, 599}

\* response.content: nothing, bytes that are no JSON document, or a JSON
\* document with the value it decodes to
EmptyBody == [body |-> "empty"]
NotJson == [body |-> "text"]
JsonBody(v) == [body |-> "json", value |-> v]

ErrorLists ==
    {L(<<>>), L(<<[message |-> S("e1")]>>),
     L(<<[message |-> S("e1")], [message |-> S("e2")]>>),
     L(<<EmptyDict>>), L(<<S("boom")>>), L(<<[message |-> PyInt(3)]>>)}

Contents ==
    {EmptyBody, NotJson, JsonBody(EmptyDict), JsonBody(NoneV), JsonBody(PyInt(5)), JsonBody(L(<<>>)),
     JsonBody([data |-> EmptyDict]),
     JsonBody([message |-> S("bad class")]), JsonBody([message |-> PyInt(7)]),
     JsonBody([message |-> S("bad class"), error |-> L(<<[message |-> S("e1")]>>)]),
     JsonBody([error |-> S("oops")])}
    \cup {JsonBody([error |-> l]) : l \in ErrorLists}

Responses == [status_code : StatusCodes, content : Contents]

\* an exception that carries a message; a message is the sequence of the
\* pieces of text it was put together from
RaisedWith(e, msg) == [kind |-> "raised", exc |-> e, msg |-> msg]

DigitChars == <<"0", "1", "2", "3", "4", "5", "6", "7", "8", "9">>
\* str(n) of a non-negative int
RECURSIVE Digits(_)
Digits(n) == IF n < 10 THEN DigitChars[n + 1]
             ELSE Digits(n \div 10) \o DigitChars[(n % 10) + 1]

\* str(v), for the values the error bodies hold
str_of(v) ==
    IF IsStr(v) THEN v.str
    ELSE IF IsInt(v) THEN Digits(v.int)
    ELSE IF v = NoneV THEN "None"
    ELSE IF v = EmptyDict THEN "{}"
    ELSE "<object>"

\* response.raise_for_status() raises HTTPError for 400..599 and only there
raises_for_status(response) ==
    400 <= response.status_code /\ response.status_code < 600

\* str(e) of the HTTPError: the status code and the side at fault
status_line(response) ==
    <<Digits(response.status_code),
      IF response.status_code < 500 THEN " Client Error" ELSE " Server Error">>

\* '; '.join(errors)
RECURSIVE join(_, _)
join(sep, errors) ==
    IF errors = <<>> THEN <<>>
    ELSE IF Len(errors) = 1 THEN <<errors[1].str>>
    ELSE <<errors[1].str, sep>> \o join(sep, Tail(errors))

\* [err.get("message", str(err)) for err in error_data["error"]]
error_messages(error) ==
    [i \in 1..Len(error) |-> Get(error[i], "message", S(str_of(error[i])))]

\* the handler of the HTTPError in _handle_response
api_error(response) ==
    LET error_data == response.content.value
        default == RaisedWith("Exception", <<"API Error: ">> \o status_line(response))
    IN  \* response.json() raises a ValueError, which is passed over
        IF response.content.body # "json" THEN default
        \* "message" in error_data on a value that is no container
        ELSE IF ~(IsDict(error_data) \/ IsList(error_data)) THEN Raised("TypeError")
        ELSE IF HasKey(error_data, "message") /\ IsDict(error_data)
        THEN RaisedWith("Exception", <<"API Error: ", str_of(error_data.message)>>)
        ELSE IF IsDict(error_data) /\ HasKey(error_data, "error") /\ IsList(error_data.error)
        THEN IF \E i \in 1..Len(error_data.error.list) : ~IsDict(error_data.error.list[i])
             THEN Raised("AttributeError")
             ELSE IF \E i \in 1..Len(error_data.error.list) :
                         ~IsStr(error_messages(error_data.error.list)[i])
             THEN Raised("TypeError")
             ELSE RaisedWith("Exception",
                             <<"API Error: ">>
                                 \o join("; ", error_messages(error_data.error.list)))
        ELSE default

\* WeaviateClient._handle_response
handle_response(response) ==
    IF raises_for_status(response) THEN api_error(response)
    ELSE IF response.content = EmptyBody THEN Returned(EmptyDict)
    ELSE IF response.content = NotJson THEN Raised("JSONDecodeError")
    ELSE Returned(response.content.value)

----------------------------------------------------------------------------
(* commands/search.py *)

AcceptedFusionTypes == {"rankedFusion", "relativeScoreFusion"}

\* what the command prints for the mapping the search handed back
printed_for(value) ==
    IF IsNone(value) THEN "error"
    ELSE IF Get(value, "objects", <<>>) = <<>> THEN "no matching objects"
    ELSE "table"

\* a search_hybrid that passes any fusion type on
search_hybrid_unvalidated(p, a, e, order) ==
    LET d == hybrid_search(p, a, e, order)
    IN  IF d.result.kind = "raised"
        THEN [d EXCEPT !.result = Returned([printed |-> "error"])]
        ELSE [d EXCEPT !.result = Returned([printed |-> printed_for(d.result.value)])]

\* search_hybrid, from the fusion type check on; a command returns None and
\* its outcome is what it printed
search_hybrid(p, a, e, order) ==
    IF a.fusion_type \notin AcceptedFusionTypes
    THEN Did(Returned([printed |-> "usage error"]), NoneV, <<>>, {}, FALSE)
    ELSE LET d == hybrid_search(p, a, e, order)
         IN  IF d.result.kind = "raised"
             THEN [d EXCEPT !.result = Returned([printed |-> "error"])]
             ELSE [d EXCEPT !.result = Returned([printed |-> printed_for(d.result.value)])]

----------------------------------------------------------------------------
(* commands/collection.py *)

DeleteEndpoint(class_name) == Endpoint("DELETE", <<"schema", class_name>>)

\* what typer.confirm hands back: the answer, or Abort when the prompt is
\* interrupted
Confirmations == {"yes", "no", "abort"}

\* what DELETE schema/{class} hands back
DeleteOutcomes == {Returned(EmptyDict), Raised("APIError")}

\* SchemaClient.delete_schema
delete_schema(class_name, deleted) ==
    IF deleted.kind = "raised"
    THEN Did(deleted, NoneV, <<DeleteEndpoint(class_name)>>, {}, FALSE)
    ELSE Did(Returned(TRUE), NoneV, <<DeleteEndpoint(class_name)>>, {}, FALSE)

\* the delete command from the confirmation on, given the requests sent so far
confirmed_delete(collection_name, force, e, sent_before) ==
    IF ~force /\ e.confirm = "no"
    THEN Did(Returned([printed |-> "cancelled"]), NoneV, sent_before, {}, FALSE)
    ELSE IF ~force /\ e.confirm = "abort"
    THEN Did(Returned([printed |-> "error"]), NoneV, sent_before, {}, FALSE)
    ELSE Did(Returned([printed |-> IF delete_schema(collection_name, e.deleted).result.kind
                                          = "raised"
                                   THEN "error" ELSE "deleted"]),
             NoneV, sent_before \o <<DeleteEndpoint(collection_name)>>, {}, FALSE)

\* a delete command that asks for no confirmation
delete_unconfirmed(collection_name, force, e) ==
    LET schemas == schema_get_schemas(e.listing)
    IN  IF schemas.kind = "raised" \/ ~IsList(schemas.value)
        THEN Did(Returned([printed |-> "error"]), NoneV, <<SchemaEndpoint>>, {}, FALSE)
        ELSE IF next_of_class(schemas.value.list, 1, collection_name).kind = "raised"
        THEN Did(Returned([printed |-> "error"]), NoneV, <<SchemaEndpoint>>, {}, FALSE)
        ELSE IF ~Truthy(next_of_class(schemas.value.list, 1, collection_name).value)
        THEN Did(Returned([printed |-> "not found"]), NoneV, <<SchemaEndpoint>>, {}, FALSE)
        ELSE confirmed_delete(collection_name, TRUE, e,
                              <<SchemaEndpoint>>
                                  \o get_collection_stats(collection_name, e).sent)

\* the delete command; it returns None and its outcome is what it printed
delete(collection_name, force, e) ==
    LET schemas == schema_get_schemas(e.listing)
    IN  \* iterating a value that is no list, or .get on an entry that is no
        \* dict, raises, and the handler prints
        IF schemas.kind = "raised" \/ ~IsList(schemas.value)
        THEN Did(Returned([printed |-> "error"]), NoneV, <<SchemaEndpoint>>, {}, FALSE)
        ELSE IF next_of_class(schemas.value.list, 1, collection_name).kind = "raised"
        THEN Did(Returned([printed |-> "error"]), NoneV, <<SchemaEndpoint>>, {}, FALSE)
        ELSE IF ~Truthy(next_of_class(schemas.value.list, 1, collection_name).value)
        THEN Did(Returned([printed |-> "not found"]), NoneV, <<SchemaEndpoint>>, {}, FALSE)
        ELSE confirmed_delete(collection_name, force, e,
                              <<SchemaEndpoint>>
                                  \o get_collection_stats(collection_name, e).sent)

----------------------------------------------------------------------------
(* The server's object store, for the object operations: it stores what it *)
(* receives.  Under ObjectsSpec the variable env is this server.           *)

MaxBatch == 2

\* the id callers name, the ids a batch file names besides, and the ids
\* uuid.uuid4() may hand out
NamedIds == {"X"}
GeneratedIds == {"U"}
ObjectIds == NamedIds \cup {"Y"} \cup GeneratedIds

PropertySets == {[title |-> S("t1"), body |-> S("b1")], [title |-> S("t2")], EmptyDict}

\* what the server adds to a record it hands back
ServerAdded == [creationTimeUnix |-> PyInt(1)]

EmptyStore == [id \in ObjectIds |-> NoneV]

\* an HTTP request: method, path, the query string put together by hand, the
\* params and the JSON body handed to the session
Request(method, endpoint, query, params, body) ==
    [method |-> method, endpoint |-> endpoint, query |-> query, params |-> params,
     json |-> body]

\* the tenant a request names, in its params or in its query string
TenantOf(req) ==
    IF HasKey(req.params, "tenant") THEN req.params.tenant
    ELSE IF req.query # <<>> THEN req.query[2]
    ELSE NoneV

\* the store holds the object of this class, id and tenant
Holds(store, class_name, object_id, tenant) ==
    /\ object_id \in ObjectIds
    /\ store[object_id] # NoneV
    /\ store[object_id].class = class_name
    /\ Get(store[object_id], "tenant", NoneV) = tenant

\* the object can be stored: it names a class and an id that is free
Storable(store, object) ==
    /\ IsDict(object)
    /\ HasKey(object, "class")
    /\ HasKey(object, "id")
    /\ object.id \in ObjectIds
    /\ store[object.id] = NoneV

Answer(status, content, store) ==
    [response |-> [status_code |-> status, content |-> content], store |-> store]

ErrorBody(text) == JsonBody([error |-> L(<<[message |-> S(text)]>>)])

\* the per-object results of a batch: an object that cannot be stored fails,
\* one without properties with no status at all
RECURSIVE serve_batch(_, _, _, _)
serve_batch(store, objects, i, results) ==
    IF i > Len(objects) THEN Answer(200, JsonBody(L(results)), store)
    ELSE IF Storable(store, objects[i]) /\ Get(objects[i], "properties", EmptyDict) # EmptyDict
    THEN serve_batch([store EXCEPT ![objects[i].id] = objects[i]], objects, i + 1,
                     Append(results, Merged(objects[i],
                                            [result |-> [status |-> S("SUCCESS")]])))
    ELSE IF Storable(store, objects[i])
    THEN serve_batch(store, objects, i + 1,
                     Append(results, Merged(objects[i],
                                            [result |-> [errors |-> S("no properties")]])))
    ELSE serve_batch(store, objects, i + 1,
                     Append(results, Merged(objects[i],
                                            [result |-> [status |-> S("FAILED"),
                                                         errors |-> S("id exists")]])))

\* the record a PUT leaves: the object's identity and what the body carries
Replaced(old, body) ==
    Merged(Without(old, "properties"),
           IF IsDict(body) /\ HasKey(body, "properties")
           THEN [properties |-> body.properties] ELSE EmptyDict)

\* the record a PATCH would leave: the body's properties merged into the old
Patched(old, body) ==
    Merged(old, [properties |-> Merged(Get(old, "properties", EmptyDict),
                                       Get(body, "properties", EmptyDict))])

\* the server: its answer to a request and the store it is left with
serve(store, req) ==
    IF req.method = "POST" /\ req.endpoint = <<"objects">>
    THEN IF Storable(store, req.json)
         THEN Answer(200, JsonBody(Merged(req.json, ServerAdded)),
                     [store EXCEPT ![req.json.id] = req.json])
         ELSE Answer(422, ErrorBody("id exists"), store)
    ELSE IF req.method = "POST" /\ req.endpoint = <<"batch", "objects">>
    THEN serve_batch(store, req.json.objects.list, 1, <<>>)
    ELSE IF Len(req.endpoint) = 3 /\ req.endpoint[1] = "objects"
    THEN IF ~Holds(store, req.endpoint[2], req.endpoint[3], TenantOf(req))
         THEN Answer(404, EmptyBody, store)
         ELSE IF req.method = "GET"
         THEN Answer(200, JsonBody(Merged(store[req.endpoint[3]], ServerAdded)), store)
         ELSE IF req.method = "PUT"
         THEN Answer(200, JsonBody(Replaced(store[req.endpoint[3]], req.json)),
                     [store EXCEPT ![req.endpoint[3]] = Replaced(@, req.json)])
         ELSE IF req.method = "PATCH"
         THEN Answer(204, EmptyBody,
                     [store EXCEPT ![req.endpoint[3]] = Patched(@, req.json)])
         ELSE IF req.method = "DELETE"
         THEN Answer(204, EmptyBody, [store EXCEPT ![req.endpoint[3]] = NoneV])
         ELSE Answer(405, EmptyBody, store)
    ELSE Answer(404, EmptyBody, store)

\* the network between the client and the server
Networks == {"up", "down"}

\* what a call did to the server: its result, the body it built, the requests
\* it sent, the store it left and the last response it got
Served(res, body, reqs, store, response) ==
    [result |-> res, built |-> body, sent |-> reqs, store |-> store,
     response |-> response]

\* the outcome of one request handed to the session, given the server's answer
answered(req, answer) ==
    Served(handle_response(answer.response), req.json, <<req>>, answer.store,
           answer.response)

\* a transport that tries once more when the network fails
transport_retrying(req, net, store) ==
    IF net = "down"
    THEN Served(Raised("ConnectionError"), req.json, <<req, req>>, store, [down |-> TRUE])
    ELSE answered(req, serve(store, req))

\* session.<method>(url, ...) followed by _handle_response: one request; an
\* error of the network is raised by the session and nothing catches it
transport(req, net, store) ==
    IF net = "down"
    THEN Served(Raised("ConnectionError"), req.json, <<req>>, store, [down |-> TRUE])
    ELSE answered(req, serve(store, req))

\* params = {}; if tenant: params["tenant"] = tenant
tenant_params(tenant) == IF Truthy(tenant) THEN [tenant |-> tenant] ELSE EmptyDict

\* "?" + "&".join(f"{k}={v}" ...), as the parts of the query string
tenant_query(tenant) == IF Truthy(tenant) THEN <<"tenant=", tenant>> ELSE <<>>

\* ObjectsClient.get_object
get_object(class_name, object_id, tenant, net, store) ==
    transport(Request("GET", <<"objects", class_name, object_id>>, <<>>,
                      tenant_params(tenant), NoneV), net, store)

\* a create_object that sends the properties only
create_object_bare(object_data, net, store) ==
    transport(Request("POST", <<"objects">>, <<>>, EmptyDict,
                      Merged(object_data, [properties |-> EmptyDict])), net, store)

\* ObjectsClient.create_object
create_object(object_data, net, store) ==
    transport(Request("POST", <<"objects">>, <<>>, EmptyDict, object_data), net, store)

\* an update_object that patches
update_object_patching(class_name, object_id, object_data, tenant, net, store) ==
    transport(Request("PATCH", <<"objects", class_name, object_id>>,
                      tenant_query(tenant), EmptyDict, object_data), net, store)

\* ObjectsClient.update_object
update_object(class_name, object_id, object_data, tenant, net, store) ==
    transport(Request("PUT", <<"objects", class_name, object_id>>,
                      tenant_query(tenant), EmptyDict, object_data), net, store)

\* ObjectsClient.batch_objects
batch_objects(objects, net, store) ==
    transport(Request("POST", <<"batch", "objects">>, <<>>, EmptyDict,
                      [objects |-> L(objects)]), net, store)

----------------------------------------------------------------------------
(* commands/objects.py *)

\* what a command printed, on top of what the call it made did
printing(served, text) == [served EXCEPT !.result = Returned([printed |-> text])]

\* the create command, from the object data on
create_object_command(collection_name, properties, object_id, tenant, net, store) ==
    LET object_data == Merged([class |-> collection_name, id |-> object_id,
                               properties |-> properties], tenant_params(tenant))
        created == create_object(object_data, net, store)
    IN  \* result.get on a value that is no dict raises, and the handler prints
        IF created.result.kind = "raised" THEN printing(created, "error")
        ELSE IF ~IsDict(created.result.value) THEN printing(created, "error")
        ELSE printing(created, "created")

\* the update command, from the object data on
update_object_command(collection_name, object_id, properties, tenant, net, store) ==
    LET updated == update_object(collection_name, object_id,
                                 [properties |-> properties], tenant, net, store)
    IN  IF updated.result.kind = "raised" THEN printing(updated, "error")
        ELSE printing(updated, "updated")

\* the objects a batch is made of, as the command reads them from its file
BatchItems ==
    {[id |-> "X", properties |-> [title |-> S("t1"), body |-> S("b1")]],
     [id |-> "Y", properties |-> EmptyDict],
     [properties |-> [title |-> S("t2")]],
     PyInt(1)}

\* the files of the batch command: an object without id is given a fresh one,
\* so a file has at most one of them for each id that can be handed out
BatchFiles ==
    {l \in SeqsUpTo(BatchItems, MaxBatch) :
        Cardinality({i \in 1..Len(l) : IsDict(l[i]) /\ ~HasKey(l[i], "id")})
            <= Cardinality(GeneratedIds)}

\* obj = obj_data.copy() with the class, the tenant and an id
batch_item(obj_data, collection_name, tenant, uuid) ==
    Merged(Merged(Merged([id |-> uuid], obj_data), [class |-> collection_name]),
           tenant_params(tenant))

\* a tally that takes every result that is no explicit failure for a success
RECURSIVE tally_lenient(_, _, _, _)
tally_lenient(results, i, success_count, failure_count) ==
    IF i > Len(results)
    THEN Returned([printed |-> "tally", success_count |-> success_count,
                   failure_count |-> failure_count])
    ELSE IF ~IsDict(results[i]) THEN Returned([printed |-> "error"])
    ELSE IF ~IsDict(Get(results[i], "result", EmptyDict))
    THEN Returned([printed |-> "error"])
    ELSE IF Get(Get(results[i], "result", EmptyDict), "status", NoneV) # S("FAILED")
    THEN tally_lenient(results, i + 1, success_count + 1, failure_count)
    ELSE tally_lenient(results, i + 1, success_count, failure_count + 1)

\* the counting loop of the batch command and the line it prints; .get on a
\* result that is no dict raises, and the handler prints
RECURSIVE tally(_, _, _, _)
tally(results, i, success_count, failure_count) ==
    IF i > Len(results)
    THEN Returned([printed |-> "tally", success_count |-> success_count,
                   failure_count |-> failure_count])
    ELSE IF ~IsDict(results[i]) THEN Returned([printed |-> "error"])
    ELSE IF ~IsDict(Get(results[i], "result", EmptyDict))
    THEN Returned([printed |-> "error"])
    ELSE IF Get(Get(results[i], "result", EmptyDict), "status", NoneV) = S("SUCCESS")
    THEN tally(results, i + 1, success_count + 1, failure_count)
    ELSE tally(results, i + 1, success_count, failure_count + 1)

\* what the batch command prints for the results api.batch_objects returned
batch_report(created) ==
    IF created.result.kind = "raised" THEN printing(created, "error")
    ELSE IF IsList(created.result.value)
    THEN [created EXCEPT !.result = tally(created.result.value.list, 1, 0, 0)]
    ELSE IF created.result.value = EmptyDict
    THEN [created EXCEPT !.result = tally(<<>>, 1, 0, 0)]
    ELSE printing(created, "error")

\* the batch command, from the loaded list on
batch_objects_command(collection_name, objects_data, tenant, uuid, net, store) ==
    \* obj_data.copy() raises on an entry that is no dict, before anything is sent
    IF \E i \in 1..Len(objects_data) : ~IsDict(objects_data[i])
    THEN Served(Returned([printed |-> "error"]), NoneV, <<>>, store, [none |-> TRUE])
    ELSE batch_report(
             batch_objects([i \in 1..Len(objects_data) |->
                               batch_item(objects_data[i], collection_name, tenant, uuid)],
                           net, store))

----------------------------------------------------------------------------
(* utils/api/client.py: get, post, put, patch, delete *)

Methods == {"GET", "POST", "PUT", "PATCH", "DELETE"}

\* the request of self.get(endpoint, params), self.post(endpoint, data),
\* self.put(endpoint, data), self.patch(endpoint, data), self.delete(endpoint)
transport_request(method, endpoint, params, data) ==
    Request(method, endpoint, <<>>,
            IF method = "GET" THEN params ELSE EmptyDict,
            IF method \in {"POST", "PUT", "PATCH"} THEN data ELSE NoneV)

----------------------------------------------------------------------------
(* commands/schema.py *)

\* a get command without a handler: the failure of the listing leaves it
schema_get_unguarded(collection_name, e) ==
    LET schemas == schema_get_schemas(e.listing)
    IN  IF schemas.kind = "raised"
        THEN Did(schemas, NoneV, <<SchemaEndpoint>>, {}, FALSE)
        ELSE Did(Returned([printed |-> "schema"]), NoneV,
                 <<SchemaEndpoint>> \o get_collection_stats(collection_name, e).sent,
                 {}, FALSE)

\* the get command of the schema group; it returns None and its outcome is
\* what it printed
schema_get(collection_name, e) ==
    LET schemas == schema_get_schemas(e.listing)
    IN  IF schemas.kind = "raised" \/ ~IsList(schemas.value)
        THEN Did(Returned([printed |-> "error"]), NoneV, <<SchemaEndpoint>>, {}, FALSE)
        ELSE IF next_of_class(schemas.value.list, 1, collection_name).kind = "raised"
        THEN Did(Returned([printed |-> "error"]), NoneV, <<SchemaEndpoint>>, {}, FALSE)
        ELSE IF ~Truthy(next_of_class(schemas.value.list, 1, collection_name).value)
        THEN Did(Returned([printed |-> "not found"]), NoneV, <<SchemaEndpoint>>, {}, FALSE)
        ELSE Did(Returned([printed |-> "schema"]), NoneV,
                 <<SchemaEndpoint>> \o get_collection_stats(collection_name, e).sent,
                 {}, FALSE)

----------------------------------------------------------------------------
(* utils/api/schema.py: has_vectorizer *)

\* the schema listings both clients are asked about
ClassLists ==
    {<<>>, <<OtherClass>>}
    \cup {<<c>> : c \in ClassDicts}
    \cup {<<OtherClass, c>> : c \in ClassDicts}

\* SchemaClient.has_vectorizer; whatever is raised on the way is answered
\* with False
schema_has_vectorizer(class_name, fetched) ==
    LET schemas == schema_get_schemas(fetched)
    IN  IF schemas.kind = "raised" \/ ~IsList(schemas.value) THEN Returned(FALSE)
        ELSE IF next_of_class(schemas.value.list, 1, class_name).kind = "raised"
        THEN Returned(FALSE)
        ELSE IF ~Truthy(next_of_class(schemas.value.list, 1, class_name).value)
        THEN Returned(FALSE)
        ELSE Returned(Get(next_of_class(schemas.value.list, 1, class_name).value,
                          "vectorizer", NoneV) \notin {NoneV, S("none")})

\* has_vectorizer of the one client or the other, on the same listing
has_vectorizer_of(client, p, class_name, classes) ==
    IF client = "search"
    THEN Did(has_vectorizer(p, SchemaData(classes), class_name), NoneV, <<>>,
             {"schema"}, TRUE)
    ELSE Did(schema_has_vectorizer(class_name, Returned([classes |-> L(classes)])),
             NoneV, <<SchemaEndpoint>>, {}, TRUE)

----------------------------------------------------------------------------
(* The calls *)

SearchArgs ==
    [class_name : {ClassName}, query_text : Queries, limit : Limits, tenant : Tenants,
     filter_obj : Filters]

HybridArgs ==
    [class_name : {ClassName}, query : {<<>>, cats}, alpha : {Alpha}, limit : Limits,
     tenant : Tenants, filter_obj : Filters, vector : Vectors,
     fusion_type : {"rankedFusion", "bogusFusion"},
     properties : {NoneV, L(<<"text">>)}, fields : FieldLists]

VectorArgs ==
    [class_name : {ClassName}, vector : Vectors \ {NoneV}, limit : Limits,
     tenant : Tenants, filter_obj : Filters, fields : FieldLists]

FilterArgs ==
    [class_name : {ClassName}, filter_obj : Filters \ {NoneV}, limit : Limits,
     tenant : Tenants, fields : FieldLists]

\* search_hybrid passes no fields
CommandArgs ==
    [class_name : {ClassName}, query : {<<>>, cats}, alpha : {Alpha}, limit : Limits,
     tenant : Tenants, filter_obj : Filters, vector : Vectors,
     fusion_type : FusionTypes, properties : PropertyLists, fields : {NoneV}]

\* The answers a call gets are the answers it asks for: the others stay NotAsked.
Unasked == [schema |-> NotAsked, listing |-> NotAsked, answer |-> NotAsked]
Placeholder == [schema |-> NoneV, listing |-> Raised("APIError"), answer |-> NoneV]
Use(e) == [k \in DOMAIN e |-> IF e[k] = NotAsked THEN Placeholder[k] ELSE e[k]]
Pick(asks, k, answers) == IF k \in asks THEN answers ELSE {NotAsked}

EnvsOf(Op(_)) ==
    UNION { { [schema |-> s, listing |-> l, answer |-> x] :
                l \in Pick(Op(Use([Unasked EXCEPT !.schema = s])).asked, "listing",
                          ListingOutcomes),
                x \in Pick(Op(Use([Unasked EXCEPT !.schema = s])).asked, "answer",
                          Answers) } :
            s \in Pick(Op(Placeholder).asked, "schema", SchemaResponses) }

Finish(o, a, e, d) ==
    /\ op' = o
    /\ args' = a
    /\ env' = e
    /\ result' = d.result
    /\ built' = d.built
    /\ sent' = d.sent
    /\ consulted' = d.consulted
    /\ UNCHANGED patched

Init ==
    /\ patched = FALSE
    /\ op = "none"
    /\ args = NoneV
    /\ env = Unasked
    /\ result = [kind |-> "none"]
    /\ built = NoneV
    /\ sent = <<>>
    /\ consulted = FALSE

\* one call at a time: a call starts when no call's outcome is pending
Idle == op = "none"

\* objects_client.execute_graphql = <an executor>, as the error test assigns it
AssignExecutor ==
    /\ Idle
    /\ ~patched
    /\ patched' = TRUE
    /\ UNCHANGED <<op, args, env, result, built, sent, consulted>>

SearchObjects ==
    /\ Idle
    /\ \E a \in SearchArgs :
        \E e \in EnvsOf(LAMBDA x : search_objects(patched, a, x)) :
            Finish("search_objects", a, e, search_objects(patched, a, Use(e)))

HybridSearch ==
    /\ Idle
    /\ \E a \in HybridArgs, order \in Orders :
        \E e \in EnvsOf(LAMBDA x : hybrid_search(patched, a, x, order)) :
            Finish("hybrid_search", a, e, hybrid_search(patched, a, Use(e), order))

VectorSearch ==
    /\ Idle
    /\ \E a \in VectorArgs, order \in Orders :
        \E e \in EnvsOf(LAMBDA x : vector_search(patched, a, x, order)) :
            Finish("vector_search", a, e, vector_search(patched, a, Use(e), order))

FilterObjects ==
    /\ Idle
    /\ \E a \in FilterArgs, order \in Orders :
        \E e \in EnvsOf(LAMBDA x : filter_objects(patched, a, x, order)) :
            Finish("filter_objects", a, e, filter_objects(patched, a, Use(e), order))

SearchHybridCommand ==
    /\ Idle
    /\ \E a \in CommandArgs, order \in Orders :
        \E e \in EnvsOf(LAMBDA x : search_hybrid(patched, a, x, order)) :
            Finish("search_hybrid", a, e, search_hybrid(patched, a, Use(e), order))

GetCollectionCount ==
    /\ Idle
    /\ \E t \in Tenants, posted \in CountOutcomes :
        Finish("get_collection_count", [class_name |-> ClassName, tenant |-> t],
               [count |-> posted], get_collection_count(ClassName, t, posted))

\* the answers of the server to the requests of the schema operations
SchemaEnvs ==
    [count : ShardCountOutcomes, meta : MetaOutcomes, classes : ClassesOutcomes,
     shards : ShardsOutcomes]

ShardEnvs ==
    [count : ShardCountOutcomes, meta : {Raised("APIError"), Returned(DocsClass)},
     classes : {Raised("APIError"), Returned([classes |-> L(<<DocsClass>>)])},
     shards : ShardsOutcomes, metrics : MetricsOutcomes]

GetCollectionStats ==
    /\ Idle
    /\ \E e \in SchemaEnvs :
        Finish("get_collection_stats", [class_name |-> ClassName], e,
               get_collection_stats(ClassName, e))

GetShards ==
    /\ Idle
    /\ \E e \in ShardEnvs :
        Finish("get_shards", [class_name |-> ClassName], e, get_shards(ClassName, e))

GetShardDetails ==
    /\ Idle
    /\ \E n \in ShardNames, e \in ShardEnvs :
        Finish("get_shard_details", [class_name |-> ClassName, shard_name |-> n], e,
               get_shard_details(ClassName, n, e))

HandleResponse ==
    /\ Idle
    /\ \E response \in Responses :
        /\ op' = "_handle_response"
        /\ args' = [response |-> response]
        /\ env' = Unasked
        /\ result' = handle_response(response)
        /\ built' = NoneV
        /\ sent' = <<>>
        /\ consulted' = FALSE
        /\ UNCHANGED patched

DeleteEnvs ==
    [listing : ClassesOutcomes, count : ShardCountOutcomes,
     meta : {Raised("APIError"), Returned(DocsClass)},
     classes : {Raised("APIError"), Returned([classes |-> L(<<DocsClass>>)])},
     shards : {Raised("APIError"), Returned(L(<<Shard1>>))},
     confirm : Confirmations, deleted : DeleteOutcomes]

DeleteCollection ==
    /\ Idle
    /\ \E force \in BOOLEAN, e \in DeleteEnvs :
        Finish("delete", [collection_name |-> ClassName, force |-> force], e,
               delete(ClassName, force, e))

SchemaGetEnvs ==
    [listing : ClassesOutcomes, count : ShardCountOutcomes,
     meta : {Raised("APIError"), Returned(DocsClass)},
     classes : {Raised("APIError"), Returned([classes |-> L(<<DocsClass>>)])},
     shards : {Raised("APIError"), Returned(L(<<Shard1>>))}]

SchemaGet ==
    /\ Idle
    /\ \E e \in SchemaGetEnvs :
        Finish("schema_get", [collection_name |-> ClassName], e, schema_get(ClassName, e))

HasVectorizer ==
    /\ Idle
    /\ \E client \in {"search", "schema"}, classes \in ClassLists :
        Finish("has_vectorizer", [class_name |-> ClassName, client |-> client],
               [classes |-> classes],
               has_vectorizer_of(client, patched, ClassName, classes))

\* the caller has taken the outcome; nothing of a call outlives it
TakeOutcome ==
    /\ ~Idle
    /\ op' = "none"
    /\ args' = NoneV
    /\ env' = Unasked
    /\ result' = [kind |-> "none"]
    /\ built' = NoneV
    /\ sent' = <<>>
    /\ consulted' = FALSE
    /\ UNCHANGED patched

Next ==
    \/ AssignExecutor
    \/ TakeOutcome
    \/ SearchObjects
    \/ HybridSearch
    \/ VectorSearch
    \/ FilterObjects
    \/ SearchHybridCommand
    \/ GetCollectionCount
    \/ GetCollectionStats
    \/ GetShards
    \/ GetShardDetails
    \/ HandleResponse
    \/ DeleteCollection
    \/ SchemaGet
    \/ HasVectorizer

Spec == Init /\ [][Next]_vars

----------------------------------------------------------------------------
(* The object operations against a server that stores what it receives *)

ObjectsInit ==
    /\ patched = FALSE
    /\ op = "none"
    /\ args = NoneV
    /\ env = [objects |-> EmptyStore, before |-> EmptyStore, response |-> [none |-> TRUE]]
    /\ result = [kind |-> "none"]
    /\ built = NoneV
    /\ sent = <<>>
    /\ consulted = FALSE

\* env is the server and its store
Serving == "objects" \in DOMAIN env

\* a call took place: the server is left with the store the call left
Took(o, a, d) ==
    /\ op' = o
    /\ args' = a
    /\ env' = [objects |-> d.store, before |-> env.objects, response |-> d.response]
    /\ result' = d.result
    /\ built' = d.built
    /\ sent' = d.sent
    /\ consulted' = FALSE
    /\ UNCHANGED patched

CreateObject ==
    /\ Serving
    /\ \E i \in NamedIds, p \in PropertySets, t \in Tenants, net \in Networks :
        Took("create_object",
             [collection_name |-> ClassName, object_id |-> i, properties |-> p,
              tenant |-> t],
             create_object_command(ClassName, p, i, t, net, env.objects))

FetchObject ==
    /\ Serving
    /\ \E i \in NamedIds, t \in Tenants, net \in Networks :
        Took("get_object", [class_name |-> ClassName, object_id |-> i, tenant |-> t],
             get_object(ClassName, i, t, net, env.objects))

UpdateObject ==
    /\ Serving
    /\ \E i \in NamedIds, p \in PropertySets, t \in Tenants, net \in Networks :
        Took("update_object",
             [collection_name |-> ClassName, object_id |-> i, properties |-> p,
              tenant |-> t],
             update_object_command(ClassName, i, p, t, net, env.objects))

BatchObjects ==
    /\ Serving
    /\ \E f \in BatchFiles, t \in Tenants, u \in GeneratedIds, net \in Networks :
        Took("batch_objects",
             [collection_name |-> ClassName, objects_data |-> L(f), tenant |-> t],
             batch_objects_command(ClassName, f, t, u, net, env.objects))

TransportCall ==
    /\ Serving
    /\ \E m \in Methods, net \in Networks :
        \E endpoint \in {<<"objects">>, <<"objects", ClassName, "X">>, <<"schema">>} :
            Took("transport",
                 [method |-> m, endpoint |-> endpoint],
                 transport(transport_request(m, endpoint, EmptyDict,
                                             [class |-> ClassName, id |-> "X",
                                              properties |-> [title |-> S("t2")]]),
                           net, env.objects))

ObjectsNext ==
    \/ CreateObject
    \/ FetchObject
    \/ UpdateObject
    \/ BatchObjects
    \/ TransportCall

ObjectsSpec == ObjectsInit /\ [][ObjectsNext]_vars

----------------------------------------------------------------------------
(* What the claims speak of *)

\* the classes of a schema answer that lists them
ListedClasses(sr) ==
    IF sr # NotAsked /\ Truthy(sr) /\ "data" \in DOMAIN sr
    THEN sr.data["Schema"].objects ELSE <<>>

\* the collection is listed, and its vectorizer is missing or "none"
NoVectorizer(sr) ==
    LET c == FirstOfClass(ListedClasses(sr), ClassName)
    IN  /\ ~IsNone(c)
        /\ ("vectorizer" \notin DOMAIN c \/ c.vectorizer = S("none"))

\* the collection is listed with a vectorizer
WithVectorizer(sr) ==
    LET c == FirstOfClass(ListedClasses(sr), ClassName)
    IN  /\ ~IsNone(c)
        /\ "vectorizer" \in DOMAIN c
        /\ c.vectorizer \notin {S("none"), NoneV}

\* the collection is listed with a vectorizer of null
VectorizerNull(sr) ==
    LET c == FirstOfClass(ListedClasses(sr), ClassName)
    IN  /\ ~IsNone(c)
        /\ "vectorizer" \in DOMAIN c
        /\ c.vectorizer = NoneV

\* the names of the collection's properties
SchemaProperties(sr) ==
    LET c == FirstOfClass(ListedClasses(sr), ClassName)
        props == IF IsNone(c) THEN <<>> ELSE Get(c, "properties", <<>>)
    IN  {props[i].name : i \in 1..Len(props)}

\* the objects a returned mapping holds, under objects or under data.Get
ReturnedObjects(v) ==
    IF IsNone(v) THEN <<>>
    ELSE IF "objects" \in DOMAIN v THEN v.objects
    ELSE Get(Get(Get(v, "data", EmptyDict), "Get", EmptyDict), ClassName, <<>>)

TextOf(o) ==
    IF "properties" \in DOMAIN o THEN Get(o.properties, "text", <<>>)
    ELSE Get(o, "text", <<>>)

\* the objects a listing holds, in either shape
Listed(body) ==
    IF "objects" \in DOMAIN body THEN body.objects
    ELSE Get(Get(Get(body, "data", EmptyDict), "Get", EmptyDict), ClassName, <<>>)

Matches(q, o) == Contains(lower(q), lower(TextOf(o)))

\* a text search with a query on a collection with no vectorizer whose listing
\* the server answered
TextSearchCase ==
    /\ op = "search_objects"
    /\ NoVectorizer(env.schema)
    /\ args.query_text # <<>>
    /\ env.listing # NotAsked
    /\ env.listing.kind = "returned"

----------------------------------------------------------------------------
(* Claims *)

\* C1: on a collection with no vectorizer and for a non-empty query text,
\* search_objects returns only objects whose text property contains the query
\* text case-insensitively, and every returned object carries additional.score
\* equal to 1.0.
C1_TextSearchOnlyMatchesScored ==
    TextSearchCase =>
        /\ result.kind = "returned"
        /\ \A i \in DOMAIN ReturnedObjects(result.value) :
              LET o == ReturnedObjects(result.value)[i]
              IN  /\ Matches(args.query_text, o)
                  /\ "additional" \in DOMAIN o
                  /\ Get(o.additional, "score", NoneV) = Float(100)

\* the texts of the first limit objects of the listing that match, in listing
\* order
FirstMatches ==
    LET all == Listed(env.listing.value)
        hits == SelectSeq(all, LAMBDA o : Matches(args.query_text, o))
        kept == Take(hits, args.limit)
    IN  [i \in 1..Len(kept) |-> TextOf(kept[i])]

ReturnedTexts ==
    LET objs == ReturnedObjects(result.value)
    IN  [i \in 1..Len(objs) |-> TextOf(objs[i])]

\* C2: a text search with query text and a limit returns exactly the first
\* limit matching objects of the listing, in listing order.
C2_TextSearchFirstMatches ==
    TextSearchCase =>
        /\ result.kind = "returned"
        /\ ReturnedTexts = FirstMatches

\* a hybrid_search call that was given a vector
VectorGiven == op = "hybrid_search" /\ ~IsNone(args.vector)

\* C3: when hybrid_search is given an explicit vector, the query it sends holds
\* that vector in its hybrid block whether or not the collection has a
\* vectorizer; the vectorizer check is not consulted and the text fallback is
\* never taken.
C3_VectorBypassesVectorizerCheck ==
    VectorGiven =>
        /\ ~IsNone(built)
        /\ "hybrid" \in DOMAIN built.query.search
        /\ "vector" \in DOMAIN built.query.search.hybrid
        /\ built.query.search.hybrid.vector = Json(args.vector.list)
        /\ ~consulted
        /\ sent = <<>>
        /\ env.listing = NotAsked

\* a vector was given for a collection listed with no vectorizer, and the
\* hybrid query was answered
C3_Witness ==
    /\ VectorGiven
    /\ NoVectorizer(env.schema)
    /\ env.answer # NotAsked
    /\ result.kind = "returned"
    /\ built.query.search.hybrid.vector = Json(<<10, 20>>)

\* a hybrid_search call with no vector that found no vectorizer
FallbackCase ==
    /\ op = "hybrid_search"
    /\ IsNone(args.vector)
    /\ env.schema # NotAsked
    /\ ~WithVectorizer(env.schema)
    /\ ~VectorizerNull(env.schema)

C5_TextSearchUsesNearText ==
    (op = "search_objects" /\ WithVectorizer(env.schema) /\ args.query_text # <<>>) =>
        /\ ~IsNone(built)
        /\ "search" \in DOMAIN built.query
        /\ "nearText" \in DOMAIN built.query.search
        /\ built.query.search.nearText.concepts = <<args.query_text>>
        /\ result.kind = "returned"
        /\ ~IsNone(result.value)
        /\ "objects" \in DOMAIN result.value

\* an answer with a top-level errors list
HasErrors(x) == x # NotAsked /\ Truthy(x) /\ "errors" \in DOMAIN x
HasData(x) == x # NotAsked /\ Truthy(x) /\ "data" \in DOMAIN x

\* the line of the error string holds the error's message, and a line and a
\* column for each location the error has
HoldsError(line, error) ==
    /\ ("message" \in DOMAIN error => line.message = error.message)
    /\ (("locations" \in DOMAIN error /\ error.locations # <<>>) =>
           /\ "at" \in DOMAIN line
           /\ Len(line.at) = Len(error.locations)
           /\ \A j \in 1..Len(error.locations) :
                 /\ ("line" \in DOMAIN error.locations[j] =>
                        line.at[j].line = Fmt(error.locations[j].line))
                 /\ ("column" \in DOMAIN error.locations[j] =>
                        line.at[j].column = Fmt(error.locations[j].column)))

ErrorsOnlyCase ==
    /\ op \in {"hybrid_search", "filter_objects"}
    /\ HasErrors(env.answer)
    /\ ~HasData(env.answer)

C7_ErrorsBeforeData ==
    (/\ op \in {"hybrid_search", "vector_search", "filter_objects"}
     /\ HasErrors(env.answer)
     /\ HasData(env.answer)) =>
        /\ result.kind = "returned"
        /\ "error" \in DOMAIN result.value
        /\ result.value.error # <<>>
        /\ "objects" \in DOMAIN result.value
        /\ result.value.objects = <<>>

\* a mapping with an objects list of id, properties and additional, and at most
\* an error beside it
UniformShape(v) ==
    /\ ~IsNone(v)
    /\ "objects" \in DOMAIN v
    /\ DOMAIN v \subseteq {"objects", "error"}
    /\ \A i \in DOMAIN v.objects :
          {"id", "properties", "additional"} \subseteq DOMAIN v.objects[i]

\* C8: every search operation returns, for every collection and every server
\* response, a mapping with an objects list (entries of id, properties and
\* additional) and an optional error; none returns the raw response or nothing.
C8_UniformResult ==
    (/\ op \in {"search_objects", "hybrid_search", "vector_search", "filter_objects"}
     /\ env # Unasked
     /\ \A k \in DOMAIN env : ~IsNone(env[k])
     /\ (env.listing = NotAsked \/ env.listing.kind = "returned")) =>
        /\ result.kind = "returned"
        /\ UniformShape(result.value)

\* C9: a hybrid search request whose fusion type is neither rankedFusion nor
\* relativeScoreFusion is rejected locally with a usage error, and nothing is
\* sent.
C9_UnknownFusionTypeRejected ==
    (op = "search_hybrid" /\ args.fusion_type \notin {"rankedFusion", "relativeScoreFusion"}) =>
        /\ result = Returned([printed |-> "usage error"])
        /\ IsNone(built)
        /\ sent = <<>>
        /\ env = Unasked

\* the command was run with a fusion type it does not know
C9_Witness ==
    /\ patched
    /\ op = "search_hybrid"
    /\ args.fusion_type = "bogusFusion"
    /\ result.kind = "returned"
    /\ result.value.printed = "usage error"

\* C10: when the caller names no fields, every field a search requests is a
\* property of the collection's schema, whatever the schema holds.
C10_RequestedFieldsAreSchemaProperties ==
    (/\ op \in {"hybrid_search", "vector_search", "filter_objects"}
     /\ IsNone(args.fields)
     /\ ~IsNone(built)
     /\ HasData(env.schema)
     /\ ~IsNone(FirstOfClass(ListedClasses(env.schema), ClassName))) =>
        \A i \in DOMAIN built.query.fields :
            built.query.fields[i] \in SchemaProperties(env.schema)

\* a Like pattern with its wildcards stripped
Stripped(pattern) == SelectSeq(pattern, LAMBDA c : c # "*")

\* the object satisfies the filter: like, or contains-any, on the text property
Satisfies(f, o) ==
    IF f.operator = "Like" THEN Contains(Stripped(f.valueText), TextOf(o))
    ELSE \E i \in DOMAIN f.valueTextArray : Contains(f.valueTextArray[i], TextOf(o))

\* a filter_objects call on a collection with no vectorizer whose listing the
\* server answered
ClientSideFilterCase ==
    /\ op = "filter_objects"
    /\ NoVectorizer(env.schema)
    /\ env.listing # NotAsked
    /\ env.listing.kind = "returned"

\* C11: filter_objects on a collection with no vectorizer returns only objects
\* that satisfy the caller's filter, and no more of them than the limit.
C11_ClientSideFilterApplied ==
    ClientSideFilterCase =>
        /\ result.kind = "returned"
        /\ Len(ReturnedObjects(result.value)) <= args.limit
        /\ \A i \in DOMAIN ReturnedObjects(result.value) :
              Satisfies(args.filter_obj, ReturnedObjects(result.value)[i])

\* the call built a GraphQL request body
GraphqlBuilt ==
    /\ op \in {"hybrid_search", "vector_search", "filter_objects", "get_collection_count"}
    /\ ~IsNone(built)

\* C12: whenever a tenant is supplied to an operation that sends a GraphQL
\* request, the request body carries it as a top-level tenant entry next to
\* query, and the where clause is exactly the caller's filter; with no tenant
\* supplied the body has no tenant entry.
C12_TenantIsTopLevel ==
    GraphqlBuilt =>
        /\ (~IsNone(args.tenant) =>
               "tenant" \in DOMAIN built /\ built.tenant = args.tenant)
        /\ (IsNone(args.tenant) => "tenant" \notin DOMAIN built)
        /\ ("where" \in DOMAIN built.query =>
               built.query.where = Json(args.filter_obj))

\* a hybrid search that was given a vector and a non-empty properties list
VectorAndProperties ==
    /\ \/ op = "hybrid_search"
       \/ op = "search_hybrid" /\ args.fusion_type \in AcceptedFusionTypes
    /\ ~IsNone(args.vector)
    /\ ~IsNone(args.properties)
    /\ Len(args.properties.list) > 0

Keys(d) == IF d = EmptyDict THEN {} ELSE DOMAIN d

\* two shard records that differ in their object count at most
SameShard(a, b) == Without(a, "objectCount") = Without(b, "objectCount")

\* the shard records of the response of the shards endpoint, of either shape
ListedShards ==
    IF env.shards.kind = "raised" THEN {}
    ELSE IF IsList(env.shards.value)
    THEN {env.shards.value.list[i] :
              i \in {j \in 1..Len(env.shards.value.list) : IsDict(env.shards.value.list[j])}}
    ELSE IF IsDict(env.shards.value)
    THEN {env.shards.value[k] : k \in Keys(env.shards.value)}
    ELSE {}

\* a list of shards in which no two records carry the same name
ShardListCase ==
    /\ op = "get_shards"
    /\ env.shards.kind = "returned"
    /\ IsList(env.shards.value)
    /\ \A i, j \in 1..Len(env.shards.value.list) :
           LET a == env.shards.value.list[i]
               b == env.shards.value.list[j]
           IN  (i # j /\ IsDict(a) /\ IsDict(b) /\ HasKey(a, "name") /\ HasKey(b, "name"))
                   => a.name # b.name

\* C14: get_shards returns a mapping keyed by shard name for both shapes of
\* response: each shard record of a list appears under a key, under its name
\* when it has one, no shard record is lost and there are no more keys than
\* records; a mapping is handed back as it came.
C14_ShardsKeyedByName ==
    /\ ShardListCase =>
          /\ result.kind = "returned"
          /\ IsDict(result.value)
          /\ DictLen(result.value) <= Len(env.shards.value.list)
          /\ \A r \in ListedShards :
                /\ \E k \in Keys(result.value) : SameShard(result.value[k], r)
                /\ HasKey(r, "name") =>
                      /\ HasKey(result.value, r.name)
                      /\ SameShard(result.value[r.name], r)
    /\ (op = "get_shards" /\ env.shards.kind = "returned" /\ IsDict(env.shards.value)) =>
          result = env.shards

\* the total count the Aggregate query answered with
ObtainedTotals == {n \in {0, 42} : env.count = Returned(CountOf(PyInt(n)))}

\* C15: in get_shards, when the collection has exactly one shard and the total
\* object count can be obtained, the shard's objectCount in the result is that
\* total, whatever the record carried and whichever shape the response had;
\* with more than one shard no objectCount is changed.
C15_SingleShardGetsTotal ==
    (op = "get_shards" /\ env.shards.kind = "returned" /\ ListedShards # {}) =>
        /\ result.kind = "returned"
        /\ IsDict(result.value)
        /\ \A n \in ObtainedTotals :
              Cardinality(ListedShards) = 1 =>
                  \A k \in Keys(result.value) :
                      Get(result.value[k], "objectCount", NoneV) = PyInt(n)
        /\ Cardinality(ListedShards) > 1 =>
              \A k \in Keys(result.value) : result.value[k] \in ListedShards

\* the shard asked for is one the collection lists
ShardExists ==
    /\ op = "get_shard_details"
    /\ \E r \in ListedShards : HasKey(r, "name") /\ r.name = args.shard_name

\* C16: get_shard_details for a shard that exists returns the shard's basic
\* record merged with the metrics when the metrics endpoint answers, and the
\* basic record alone when it fails; it never raises.
C16_DetailsMergeMetrics ==
    ShardExists =>
        /\ result.kind = "returned"
        /\ IsDict(result.value)
        /\ Get(result.value, "name", "") = args.shard_name
        /\ (env.metrics.kind = "returned" /\ IsDict(env.metrics.value)) =>
              \A k \in Keys(env.metrics.value) :
                  /\ HasKey(result.value, k)
                  /\ result.value[k] = env.metrics.value[k]
        /\ env.metrics.kind = "raised" =>
              \E r \in ListedShards : SameShard(result.value, r)

\* C17: in get_collection_stats the failure of one sub-fetch (object count,
\* schema metadata, shard listing) leaves that piece at its default and does
\* not keep the other pieces from being fetched and returned; the call never
\* fails.
C17_SubFetchesIndependent ==
    op = "get_collection_stats" =>
        /\ result.kind = "returned"
        /\ env.count.kind = "raised" => result.value.object_count = PyInt(0)
        /\ env.count.kind = "returned" =>
              result.value.object_count =
                  env.count.value.data["Aggregate"]["Docs"].list[1].meta.count
        /\ (env.meta.kind = "returned" /\ IsDict(env.meta.value)) =>
              result.value.meta = env.meta.value
        /\ env.shards.kind = "raised" => result.value.shards = L(<<>>)
        /\ env.shards.kind = "returned" => result.value.shards = env.shards.value

\* the Aggregate answers that carry an integer count in the expected place
WellFormedCounts == {CountOf(PyInt(n)) : n \in {0, 42}}

\* C18: get_collection_count returns an integer for every answer of the
\* GraphQL endpoint, and 0 without raising when the answer is missing,
\* malformed or holds no entries.
C18_CountIsInteger ==
    (op = "get_collection_count" /\ env.count.kind = "returned") =>
        /\ result.kind = "returned"
        /\ IsInt(result.value)
        /\ env.count.value \notin WellFormedCounts => result.value = PyInt(0)

\* a call of the transport's response handler
Handled == op = "_handle_response"

\* C19: a transport call succeeds exactly when the status code is in
\* [200, 300): it then returns the decoded JSON body, or the empty mapping for
\* an empty body; every other status fails with the API error.
C19_SuccessExactlyOn2xx ==
    Handled =>
        LET response == args.response
        IN  IF response.status_code \in 200..299
            THEN /\ result.kind = "returned"
                 /\ response.content = EmptyBody => result.value = EmptyDict
                 /\ response.content.body = "json" =>
                        result.value = response.content.value
            ELSE /\ result.kind = "raised"
                 /\ result.exc = "Exception"
                 /\ "msg" \in DOMAIN result
                 /\ result.msg[1] = "API Error: "

\* the response is one the handler takes for a failure
Failed == Handled /\ args.response.status_code \in 400..599

\* the body is a JSON object with a message entry
HasMessage ==
    /\ args.response.content.body = "json"
    /\ IsDict(args.response.content.value)
    /\ HasKey(args.response.content.value, "message")

\* the body is a JSON object with a list under error and no message entry
HasErrorList ==
    /\ args.response.content.body = "json"
    /\ IsDict(args.response.content.value)
    /\ ~HasKey(args.response.content.value, "message")
    /\ HasKey(args.response.content.value, "error")
    /\ IsList(args.response.content.value.error)

\* C20: on a failed response the failure raised is the API error and no other,
\* for every body; its message is the body's message when there is one, else
\* the messages of the body's error list, else, for a body that is no JSON,
\* the status line.
C20_FailureIsApiError ==
    Failed =>
        /\ result.kind = "raised"
        /\ result.exc = "Exception"
        /\ "msg" \in DOMAIN result
        /\ result.msg[1] = "API Error: "
        /\ (HasMessage /\ IsStr(args.response.content.value.message)) =>
              result.msg = <<"API Error: ", args.response.content.value.message.str>>
        /\ HasErrorList =>
              \A i \in 1..Len(args.response.content.value.error.list) :
                  LET err == args.response.content.value.error.list[i]
                  IN  (IsDict(err) /\ HasKey(err, "message") /\ IsStr(err.message))
                          => \E j \in 1..Len(result.msg) : result.msg[j] = err.message.str
        /\ args.response.content.body # "json" =>
              result.msg[2] = Digits(args.response.status_code)

\* the positions of the DELETE requests among the requests sent
Deletes == {i \in 1..Len(sent) : sent[i].method = "DELETE"}

\* the schema listing the command fetched shows the collection
ListingShows ==
    /\ env.listing.kind = "returned"
    /\ IsDict(env.listing.value)
    /\ HasKey(env.listing.value, "classes")
    /\ \E i \in 1..Len(env.listing.value.classes.list) :
           LET s == env.listing.value.classes.list[i]
           IN  IsDict(s) /\ HasKey(s, "class") /\ s.class = args.collection_name

\* C21: the collection delete command sends the DELETE request only after a
\* schema listing of the same command showed the collection and, unless force
\* is set, the user confirmed; the order is existence check, stats fetch,
\* delete; when the collection is absent or the user declines, no DELETE is
\* sent.
C21_DeleteAfterCheckAndConfirm ==
    op = "delete" =>
        /\ Cardinality(Deletes) <= 1
        /\ \A i \in Deletes :
              /\ i = Len(sent)
              /\ sent[i] = [method |-> "DELETE",
                            endpoint |-> <<"schema", args.collection_name>>]
              /\ sent[1] = [method |-> "GET", endpoint |-> <<"schema">>]
              /\ sent[2] = [method |-> "POST", endpoint |-> "graphql"]
              /\ i > 2
              /\ ListingShows
              /\ args.force \/ env.confirm = "yes"
        /\ (~ListingShows \/ (~args.force /\ env.confirm # "yes")) => Deletes = {}

\* a confirmed, unforced delete of a listed collection went out
C21_Witness ==
    /\ op = "delete"
    /\ ~args.force
    /\ env.confirm = "yes"
    /\ ListingShows
    /\ Deletes # {}
    /\ result = Returned([printed |-> "deleted"])

\* C22: create_object with id X and properties P followed by get_object for X
\* in the same collection returns properties equal to P, the server storing
\* what it receives: the client changes neither the object data it sends nor
\* the record the server returns.
C22_CreateThenGet ==
    [][(/\ op = "create_object"
        /\ result = Returned([printed |-> "created"])
        /\ op' = "get_object"
        /\ args'.class_name = args.collection_name
        /\ args'.object_id = args.object_id
        /\ args'.tenant = args.tenant
        /\ "down" \notin DOMAIN env'.response)
           => /\ result'.kind = "returned"
              /\ HasKey(result'.value, "properties")
              /\ result'.value.properties = args.properties
              /\ result'.value.id = args.object_id]_vars

\* an object that was created with properties was read back
C22_Witness ==
    /\ op = "get_object"
    /\ result.kind = "returned"
    /\ env.before = env.objects
    /\ env.objects[args.object_id] # NoneV
    /\ env.objects[args.object_id].properties = [title |-> S("t1"), body |-> S("b1")]
    /\ result.value.properties = [title |-> S("t1"), body |-> S("b1")]

\* C23: update_object sends one PUT request to objects/{class}/{id} carrying
\* the caller's data unchanged and never a PATCH, so that after a successful
\* update the stored properties are exactly those supplied and properties
\* left out of the update are not kept.
C23_UpdateReplaces ==
    op = "update_object" =>
        /\ Len(sent) = 1
        /\ sent[1].method = "PUT"
        /\ sent[1].endpoint = <<"objects", args.collection_name, args.object_id>>
        /\ sent[1].json = [properties |-> args.properties]
        /\ result = Returned([printed |-> "updated"]) =>
              /\ env.objects[args.object_id].properties = args.properties
              /\ env.objects[args.object_id].id = args.object_id

\* an update left a property out, and the stored object has lost it
C23_Witness ==
    /\ op = "update_object"
    /\ result = Returned([printed |-> "updated"])
    /\ env.before[args.object_id].properties = [title |-> S("t1"), body |-> S("b1")]
    /\ args.properties = [title |-> S("t2")]
    /\ env.objects[args.object_id].properties = [title |-> S("t2")]

\* the per-object results the batch request was answered with
BatchResults ==
    IF "content" \in DOMAIN env.response /\ env.response.content.body = "json"
    THEN env.response.content.value.list
    ELSE <<>>

\* C24: batch create sends all objects in a single request and resends none
\* after a partial failure; the success count plus the failure count it
\* reports equals the number of per-object results returned, an object
\* counting as a success exactly when its status is SUCCESS.
C24_BatchTally ==
    op = "batch_objects" =>
        /\ Len(sent) <= 1
        /\ \A k \in 1..Len(sent) :
              /\ sent[k].method = "POST"
              /\ sent[k].endpoint = <<"batch", "objects">>
              /\ Len(sent[k].json.objects.list) = Len(args.objects_data.list)
              /\ \A i \in 1..Len(args.objects_data.list) :
                    \A f \in DOMAIN args.objects_data.list[i] :
                        f # "class" =>
                            sent[k].json.objects.list[i][f] = args.objects_data.list[i][f]
        /\ (result.kind = "returned" /\ result.value.printed = "tally") =>
              /\ result.value.success_count + result.value.failure_count
                     = Len(BatchResults)
              /\ result.value.success_count =
                     Cardinality({i \in 1..Len(BatchResults) :
                                     /\ "status" \in DOMAIN BatchResults[i].result
                                     /\ BatchResults[i].result.status = S("SUCCESS")})

\* a batch of two was partly stored, and both outcomes were counted
C24_Witness ==
    /\ op = "batch_objects"
    /\ Len(sent) = 1
    /\ result.kind = "returned"
    /\ result.value.printed = "tally"
    /\ result.value.success_count = 1
    /\ result.value.failure_count = 1

\* C30: each transport call (get, post, put, patch, delete) sends exactly one
\* HTTP request; after a failed response or an error of the network no
\* further request is sent for the call and the failure reaches the caller.
C30_OneRequestPerCall ==
    op = "transport" =>
        /\ Len(sent) = 1
        /\ sent[1].method = args.method
        /\ sent[1].endpoint = args.endpoint
        /\ "down" \in DOMAIN env.response => result = Raised("ConnectionError")
        /\ ("status_code" \in DOMAIN env.response
                /\ env.response.status_code \in 400..599) => result.kind = "raised"

\* a call met a network that was down, and one that met a failed response
C30_Witness ==
    /\ op = "transport"
    /\ "down" \in DOMAIN env.response
    /\ result.kind = "raised"
    /\ Len(sent) = 1

\* C25: when the primary operation of a command fails, the command prints an
\* error, runs none of its remaining steps and returns normally: no exception
\* leaves the command handler.
C25_FailurePrintedNotRaised ==
    /\ op = "search_hybrid" =>
          /\ result.kind = "returned"
          /\ env.listing = Raised("APIError") =>
                /\ result.value.printed = "error"
                /\ Len(sent) = 1
          /\ (~patched /\ args.fusion_type \in {"rankedFusion", "relativeScoreFusion"}
                  /\ env.listing = NotAsked) =>
                /\ result.value.printed = "error"
                /\ sent = <<>>
    /\ op = "schema_get" =>
          /\ result.kind = "returned"
          /\ env.listing.kind = "raised" =>
                /\ result.value.printed = "error"
                /\ sent = <<[method |-> "GET", endpoint |-> <<"schema">>]>>

\* the listing of the schema get command failed and the command said so
C25_Witness ==
    /\ op = "schema_get"
    /\ env.listing.kind = "raised"
    /\ result = Returned([printed |-> "error"])
    /\ Len(sent) = 1

\* C26: every GraphQL query built by hybrid_search, vector_search,
\* filter_objects and by the schema lookup behind has_vectorizer is delivered
\* as a POST to the graphql endpoint through an operation the object accessor
\* provides; with a server that answers, none of these calls fails before a
\* request is sent.
C26_GraphqlIsPosted ==
    (~patched /\ op \in {"hybrid_search", "vector_search", "filter_objects",
                         "search_objects"}) =>
        /\ result # Raised("AttributeError")
        /\ built # NoneV =>
              \E i \in 1..Len(sent) :
                  sent[i].method = "POST" /\ sent[i].endpoint = "graphql"

\* the listing holds the collection with a vectorizer that is neither null
\* nor "none"
ListedWithVectorizer ==
    \E i \in 1..Len(env.classes) :
        /\ env.classes[i].class = args.class_name
        /\ "vectorizer" \in DOMAIN env.classes[i]
        /\ env.classes[i].vectorizer \notin {NoneV, S("none")}

\* C27: has_vectorizer returns false exactly when the collection is missing
\* from the schema listing or its vectorizer is absent, null or "none", and
\* true otherwise; the search client's and the schema client's implementation
\* give the same answer for every schema listing.
C27_HasVectorizerAgrees ==
    (op = "has_vectorizer" /\ (args.client = "schema" \/ patched)) =>
        result = Returned(ListedWithVectorizer)

\* the raw objects of the class in the answer to a hybrid_search or a
\* filter_objects, when the answer holds data for the class and no errors
RawObjects ==
    IF /\ op \in {"hybrid_search", "filter_objects"}
       /\ env.answer # NotAsked
       /\ "errors" \notin DOMAIN env.answer
       /\ "data" \in DOMAIN env.answer
       /\ "Get" \in DOMAIN env.answer.data
       /\ args.class_name \in DOMAIN env.answer.data["Get"]
    THEN env.answer.data["Get"][args.class_name]
    ELSE <<>>

\* C28: for a GraphQL response that holds data for the class, hybrid_search
\* and filter_objects return one result per raw object, in the same order,
\* with id taken from _additional.id, properties equal to the raw object's
\* fields other than _additional, and additional.score present exactly when
\* the raw object has _additional.score; no raw object makes the operation
\* raise.
C28_OneResultPerRawObject ==
    RawObjects # <<>> =>
        /\ result.kind = "returned"
        /\ Len(result.value.objects) = Len(RawObjects)
        /\ \A i \in 1..Len(RawObjects) :
              LET raw == RawObjects[i]
                  res == result.value.objects[i]
              IN  /\ ("_additional" \in DOMAIN raw /\ "id" \in DOMAIN raw["_additional"])
                         => res.id = raw["_additional"].id
                  /\ \A f \in DOMAIN raw \ {"_additional"} :
                         f \in DOMAIN res.properties /\ res.properties[f] = raw[f]
                  /\ "score" \in DOMAIN res.additional
                         <=> ("_additional" \in DOMAIN raw
                                  /\ "score" \in DOMAIN raw["_additional"])

\* the call named no fields, learned the collection's schema and built a query
FieldsChosenFromSchema ==
    /\ op \in {"hybrid_search", "vector_search", "filter_objects"}
    /\ IsNone(args.fields)
    /\ ~IsNone(built)
    /\ HasData(env.schema)

\* the priority fields the schema holds, in the priority order
PriorityFieldsHeld(sr) ==
    SelectSeq(PriorityFields, LAMBDA f : f \in SchemaProperties(sr))

\* C29 as stated: when the caller names no fields and the schema holds at least
\* one of the five priority fields, the query requests exactly those, text first
\* and the others in the fixed order; when the schema holds none of them, the
\* query requests a single field.
C29_PriorityFieldsElseSingleField ==
    FieldsChosenFromSchema =>
        IF PriorityFieldsHeld(env.schema) # <<>>
        THEN built.query.fields = PriorityFieldsHeld(env.schema)
        ELSE Len(built.query.fields) = 1

\* C29 amended: when the schema holds at least one of the five priority fields,
\* the query requests exactly those in the priority order; when it holds none
\* of them but holds other properties, the query requests every property of
\* the schema once each; when it holds no property at all, the query requests
\* the single field text.
C29_PriorityFieldsElseAllElseText ==
    FieldsChosenFromSchema =>
        IF PriorityFieldsHeld(env.schema) # <<>>
        THEN built.query.fields = PriorityFieldsHeld(env.schema)
        ELSE IF SchemaProperties(env.schema) # {}
        THEN /\ {built.query.fields[i] : i \in DOMAIN built.query.fields}
                    = SchemaProperties(env.schema)
             /\ Len(built.query.fields) = Cardinality(SchemaProperties(env.schema))
        ELSE built.query.fields = <<"text">>

\* a search that named no fields ran against a schema holding title and author
\* only, and its query asks for both
C29_Witness ==
    /\ FieldsChosenFromSchema
    /\ op = "vector_search"
    /\ SchemaProperties(env.schema) = {"title", "author"}
    /\ Len(built.query.fields) = 2
    /\ result.kind = "returned"

=============================================================================
